---- MODULE Spec2Model ----
(***************************************************************************)
(* Render batching of rlgl-cpp: the immediate-mode front end of            *)
(* source/rlgl.cpp (Begin, Vertex, End, SetTexture, CheckRenderBatchLimit, *)
(* DrawRenderBatch) accumulating into a RenderBatch, and the flush of      *)
(* source/rlRenderBatch.cpp (RenderBatch::Draw, DrawCall::Render).         *)
(*                                                                         *)
(* rlgl.cpp addresses the draw calls as draws[0 .. drawCounter-1]; the     *)
(* RenderBatch of rlRenderBatch.cpp keeps them in drawQueue.  The model    *)
(* keeps one sequence drawQueue, front first: draws[drawCounter-1] is its  *)
(* last element (GetLastDrawCall), drawCounter its length                  *)
(* (GetDrawCallCounter), drawCounter++ appends a fresh call (NewDrawCall). *)
(* rlgl.cpp tests drawCounter against the macro RL_DEFAULT_BATCH_DRAWCALLS, *)
(* which is also the drawQueueLimit of a batch made without a limit.       *)
(***************************************************************************)
EXTENDS Integers, Sequences, FiniteSets, TLC

(* ------------------------------ bounds -------------------------------- *)
MaxElements  == 2      \* bufferElements given to the constructor: 1..MaxElements
BufferCount  == 3      \* numBuffers given to the constructor
MaxDrawCalls == 2      \* drawCallsLimit given to the constructor: 1..MaxDrawCalls
MaxTextureId == 2      \* texture ids handed to SetTexture: 0..MaxTextureId
MaxDepth     == 1      \* End() calls followed between two flushes
MaxQuads     == 4      \* bufferElements of a batch filled with quads: 1..MaxQuads
MaxCalls     == 4      \* drawCallsLimit of a batch driven by texture switches: 1..MaxCalls
MaxModeCalls == 3      \* drawCallsLimit of a batch driven by mode switches: 1..MaxModeCalls
MaxModeElements == 3   \* bufferElements of a batch driven by mode switches: 1..MaxModeElements
MaxRunVertices == 20   \* Vertex calls of a run in one mode
MaxRunFlushes  == 4    \* flushes after which a run asks for no further one
MaxShaderId    == 2    \* shader ids 0..MaxShaderId
MaxBlendElements == 1  \* bufferElements of a batch drawn under changing blend modes: 1..MaxBlendElements
MaxBlendCalls  == 1    \* drawCallsLimit of such a batch: 1..MaxBlendCalls
MaxFactor      == 1    \* blend factor settings handed to SetBlendFactors: 0..MaxFactor
MaxBatchElements == 1  \* bufferElements of the batches of a context with two: 1..MaxBatchElements
MaxBatchCalls  == 3    \* drawCallsLimit of the batch the caller made, and the macro: 1..MaxBatchCalls
MaxTextureUnits == 2   \* the value the build gives RL_DEFAULT_BATCH_MAX_TEXTURE_UNITS
MaxMatrix      == 1    \* matrices a caller hands to SetMatrixProjection and SetMatrixModelview: 1..MaxMatrix
RL_MAX_MATRIX_STACK_SIZE == 1   \* the value the build gives this macro
MaxProduct     == 1    \* factors of a matrix product: 0..MaxProduct
MaxPadElements == 5    \* bufferElements of a batch whose calls are closed with padding: 1..MaxPadElements
MaxPadCalls    == 3    \* drawCallsLimit of such a batch: 1..MaxPadCalls

(* --------------------------- program constants ------------------------ *)
DefaultTextureId == 1  \* State.defaultTextureId, the first texture the context loads
DefaultShaderId == 1   \* State.defaultShaderId, the first shader program the context loads

DrawMode == {"Lines", "Triangles", "Quads"}

\* vertices per primitive of a drawing mode (the %2, %3, %4 of Context::Vertex)
PrimSize(mode) == CASE mode = "Lines" -> 2 [] mode = "Triangles" -> 3 [] OTHER -> 4

VARIABLES
    elementCount,     \* VertexBuffer::elementCount of every buffer of the batch
    bufferCount,      \* RenderBatch::bufferCount
    drawQueueLimit,   \* RenderBatch::drawQueueLimit
    RL_DEFAULT_BATCH_DRAWCALLS,   \* the value the build gives this macro
    vboId,            \* VertexBuffer::vboId of the buffers of the batch, 0: the GL generated none
    activeTextureId,  \* Context::State.activeTextureId, one id per additional texture unit
    projection,       \* Context::State.projection, a product of named matrices
    modelview,        \* Context::State.modelview, a product of named matrices
    transform,        \* Context::State.transform, a product of named matrices
    currentMatrixMode,            \* Context::State.currentMatrixMode
    currentMatrix,    \* Context::State.currentMatrix: the name of the matrix it points to
    transformRequired,            \* Context::State.transformRequired
    stack,            \* Context::State.stack, and the memory right behind it as one more slot
    stackCounter,     \* Context::State.stackCounter
    vertexCounter,    \* Context::State.vertexCounter
    drawQueue,        \* RenderBatch::drawQueue, front first
    currentBuffer,    \* RenderBatch::currentBuffer
    currentDepth,     \* RenderBatch::currentDepth, in steps of 1/20000 above -1.0
    stereoRender,     \* Context::State.stereoRender
    currentShaderId,  \* Context::State.currentShaderId
    currentShaderLocs,            \* Context::State.currentShaderLocs
    currentBlendMode,             \* Context::State.currentBlendMode
    glBlendFactors,               \* State.glBlendSrcFactor, glBlendDstFactor, glBlendEquation as one value
    glBlendFactorsSeparate,       \* State.glBlend*FactorRGB, *FactorAlpha, glBlendEquationRGB/Alpha as one value
    glCustomBlendModeModified,    \* Context::State.glCustomBlendModeModified
    glBlend,          \* the blend function and equation the GL was last given
    currentBatch,     \* Context::currentBatch, the batch whose fields the variables above hold
    parked,           \* the fields of the batches that are not the current one
    hung,             \* TRUE once a call has entered a loop it never leaves
    firstIndex,       \* history: per queued call, buffer index of its first vertex (-1: none yet)
    vertexBuffers,    \* the VertexBuffer objects of the caller, by the place they are stored in
    gl,               \* the GL: whether it has vertex array objects, and per buffer and
                      \* vertex array name generated how often it was deleted
    heap,             \* per array given by new[] how often delete[] was applied to it
    pushed,           \* history: per PushMatrix no PopMatrix has matched yet, modelview before it,
                      \* and whether it was made in ModelView mode with no MatrixMode call since
    caller,           \* history: the mode the caller emits in and the vertices of the open primitive
    run,              \* history: vertices emitted and flushes run since construction
    ev                \* history: what the last operation did

vars == <<elementCount, bufferCount, drawQueueLimit, RL_DEFAULT_BATCH_DRAWCALLS,
          vboId, activeTextureId, projection, modelview, transform, currentMatrixMode,
          currentMatrix, transformRequired, stack, stackCounter, vertexCounter, drawQueue,
          currentBuffer, currentDepth, stereoRender, currentShaderId, currentShaderLocs,
          currentBlendMode, glBlendFactors, glBlendFactorsSeparate,
          glCustomBlendModeModified, glBlend, currentBatch, parked,
          hung, firstIndex, vertexBuffers, gl, heap, pushed, caller, run, ev>>

(* ------------------------------ DrawCall ------------------------------ *)
\* DrawCall(uint32_t _textureId) with the default member initialisers
DrawCall(textureId) ==
    [mode |-> "Quads", vertexCount |-> 0, vertexAlignment |-> 0, textureId |-> textureId]

\* Render advancing the offset by vertexCount alone, the alignment forgotten
RenderCountOnly(call, vertexOffset) ==
    [cmd |-> IF call.mode \in {"Lines", "Triangles"}
             THEN [kind |-> "arrays", mode |-> call.mode, textureId |-> call.textureId,
                   first |-> vertexOffset, count |-> call.vertexCount,
                   vertexOffset |-> vertexOffset]
             ELSE [kind |-> "elements", mode |-> call.mode, textureId |-> call.textureId,
                   first |-> (vertexOffset \div 4) * 6,
                   count |-> (call.vertexCount \div 4) * 6,
                   vertexOffset |-> vertexOffset],
     vertexOffset |-> vertexOffset + call.vertexCount]

\* Render with the vertex offset used unscaled as the first index of a quad draw
RenderUnscaledFirst(call, vertexOffset) ==
    [cmd |-> IF call.mode \in {"Lines", "Triangles"}
             THEN [kind |-> "arrays", mode |-> call.mode, textureId |-> call.textureId,
                   first |-> vertexOffset, count |-> call.vertexCount,
                   vertexOffset |-> vertexOffset]
             ELSE [kind |-> "elements", mode |-> call.mode, textureId |-> call.textureId,
                   first |-> vertexOffset,
                   count |-> (call.vertexCount \div 4) * 6,
                   vertexOffset |-> vertexOffset],
     vertexOffset |-> vertexOffset + (call.vertexCount + call.vertexAlignment)]

\* DrawCall::Render: one draw command, then vertexOffset += vertexCount + vertexAlignment.
\* An arrays command starts at vertex `first'; an elements command starts at index
\* `first' of the index buffer and reads `count' indices.
Render(call, vertexOffset) ==
    [cmd |-> IF call.mode \in {"Lines", "Triangles"}
             THEN [kind |-> "arrays", mode |-> call.mode, textureId |-> call.textureId,
                   first |-> vertexOffset, count |-> call.vertexCount,
                   vertexOffset |-> vertexOffset]
             ELSE [kind |-> "elements", mode |-> call.mode, textureId |-> call.textureId,
                   first |-> (vertexOffset \div 4) * 6,
                   count |-> (call.vertexCount \div 4) * 6,
                   vertexOffset |-> vertexOffset],
     vertexOffset |-> vertexOffset + (call.vertexCount + call.vertexAlignment)]

\* the draining loop of RenderBatch::Draw for the last eye: Render the front, pop it
\* the queue rendered from its back to its front
RECURSIVE RenderQueueLifo(_, _)
RenderQueueLifo(queue, vertexOffset) ==
    IF queue = <<>> THEN <<>>
    ELSE LET r == Render(queue[Len(queue)], vertexOffset)
         IN  <<r.cmd>> \o RenderQueueLifo(SubSeq(queue, 1, Len(queue) - 1), r.vertexOffset)

RECURSIVE RenderQueue(_, _)
RenderQueue(queue, vertexOffset) ==
    IF queue = <<>> THEN <<>>
    ELSE LET r == Render(Head(queue), vertexOffset)
         IN  <<r.cmd>> \o RenderQueue(Tail(queue), r.vertexOffset)

(* --------------------------- operation context ------------------------ *)
NoWrite == [index |-> -1, buffer |-> -1, z |-> -1]

\* the state an operation starts from, with an empty record of what it did;
\* tz is the depth argument of Vertex(x, y), evaluated when the call is made
Ctx == [vertexCounter |-> vertexCounter, drawQueue |-> drawQueue,
        currentBuffer |-> currentBuffer, currentDepth |-> currentDepth,
        firstIndex |-> firstIndex, hung |-> FALSE,
        currentShaderId |-> currentShaderId, currentShaderLocs |-> currentShaderLocs,
        currentBlendMode |-> currentBlendMode, glBlendFactors |-> glBlendFactors,
        glBlendFactorsSeparate |-> glBlendFactorsSeparate,
        glCustomBlendModeModified |-> glCustomBlendModeModified, glBlend |-> glBlend,
        activeTextureId |-> activeTextureId, projection |-> projection,
        modelview |-> modelview,
        tz |-> currentDepth,
        flushes |-> <<>>, wrote |-> NoWrite]

\* sequencing of two statements: the value of e, computed once, handed to F
Then(e, F(_)) == CHOOSE r \in {F(x) : x \in {e}} : TRUE

Last(q) == q[Len(q)]
\* a write that lands in the oldest queued call
SetFirst(q, x) == [q EXCEPT ![1] = x]
SetLast(q, x) == [q EXCEPT ![Len(q)] = x]

\* capacity in vertices of the current buffer
Capacity == elementCount * 4

(* ------------------------- RenderBatch::Draw -------------------------- *)
\* A matrix is a product of named matrices, written as the sequence of the
\* names: the empty product is the identity.  State.projectionStereo and
\* State.viewOffsetStereo hold, by eye, matrices with names of their own.
projectionStereo == [eye \in 0..1 |-> <<-1 - eye>>]
viewOffsetStereo == [eye \in 0..1 |-> <<-3 - eye>>]

\* one pass of the body of the draining loop of an eye, after the Render of
\* the front: the front is popped for the last eye only
EyePass(queue, eye, eyeCount) == IF eye = eyeCount - 1 THEN Tail(queue) ELSE queue

\* the loop runs while the queue is not empty and tests nothing else: a pass
\* that leaves the queue as it found it is followed by the same pass for ever
EyeSpins(queue, eye, eyeCount) ==
    queue # <<>> /\ EyePass(queue, eye, eyeCount) = queue

\* The flush.  `steps' lists the effects in the order of the code, `after' is
\* what the flush leaves behind.  The eyes are taken in order: where the loop
\* of the first eye never ends the call is hung; where it ends at once (an
\* empty queue) every eye issues no command.
Draw(s, cause) ==
    LET drawing  == s.vertexCounter > 0
        matProjection == s.projection
        matModelView  == s.modelview
        eyeCount == IF stereoRender THEN 2 ELSE 1
        drained  == IF drawing THEN <<>> ELSE s.drawQueue
        requeued == IF Len(drained) = 0 THEN <<DrawCall(DefaultTextureId)>> ELSE drained
        refirst  == IF Len(drained) = 0 THEN <<-1>> ELSE s.firstIndex
        next     == IF s.currentBuffer + 1 >= bufferCount THEN 0 ELSE s.currentBuffer + 1
        Steps(cmds) == (IF drawing THEN <<"upload">> ELSE <<>>)
                       \o [eye \in 1..(IF eyeCount = 2 THEN 2 ELSE 0) |-> "eyeMatrices"]
                       \o [i \in 1..Len(cmds) |-> "draw"]
                       \o <<"resetDepth", "restoreMatrices">>
                       \o (IF Len(drained) = 0 THEN <<"pushDefault">> ELSE <<>>)
                       \o <<"advanceBuffer">>
        Rec(cmds) == [cause |-> cause, buffer |-> s.currentBuffer,
                      vertexCounter |-> s.vertexCounter, queue |-> s.drawQueue,
                      firstIndex |-> s.firstIndex, cmds |-> cmds, steps |-> Steps(cmds),
                      shaderId |-> s.currentShaderId, blend |-> s.glBlend,
                      textures |-> s.activeTextureId,
                      resumed |-> Last(requeued),
                      after |-> [vertexCounter |-> s.vertexCounter, drawQueue |-> requeued]]
    IN  IF drawing /\ EyeSpins(s.drawQueue, 0, eyeCount)
        THEN [s EXCEPT !.hung = TRUE,
                       !.modelview = matModelView \o viewOffsetStereo[0],
                       !.projection = projectionStereo[0]]
        ELSE [s EXCEPT !.drawQueue = requeued, !.firstIndex = refirst,
                       !.currentDepth = 0, !.currentBuffer = next,
                       !.projection = matProjection, !.modelview = matModelView,
                       !.flushes = Append(@, Then(IF drawing THEN RenderQueue(s.drawQueue, 0)
                                                  ELSE <<>>, Rec))]

(* ---------------------- Context::DrawRenderBatch ---------------------- *)
\* DrawRenderBatch that resets the counter and the texture units, then draws
DrawRenderBatchResetFirst(s, cause) ==
    LET Mark(d) == IF d.hung THEN d
                   ELSE [d EXCEPT !.flushes[Len(d.flushes)].steps =
                                      <<"resetVertexCounter", "clearActiveTextures">> \o @]
    IN  Then(Draw([s EXCEPT !.vertexCounter = 0,
                            !.activeTextureId = [i \in 1..MaxTextureUnits |-> 0]],
                  cause), Mark)

\* DrawRenderBatch without the reset of the vertex counter
DrawRenderBatchNoReset(s, cause) == Draw(s, cause)

\* DrawRenderBatch that hands the mode and texture of the open call on to the
\* call the flush leaves open
DrawRenderBatchKeepOpen(s, cause) ==
    LET open == Last(s.drawQueue)
        Kept(call) == [call EXCEPT !.mode = open.mode, !.textureId = open.textureId]
        Keep(d) == IF d.hung THEN d
                   ELSE [d EXCEPT !.vertexCounter = 0,
                                  !.activeTextureId = [i \in 1..MaxTextureUnits |-> 0],
                                  !.drawQueue = SetLast(@, Kept(Last(@))),
                                  !.flushes[Len(d.flushes)].after.vertexCounter = 0,
                                  !.flushes[Len(d.flushes)].after.drawQueue =
                                      SetLast(@, Kept(Last(@)))]
    IN  Then(Draw(s, cause), Keep)

DrawRenderBatch(s, cause) ==
    LET Reset(d) == IF d.hung THEN d
                    ELSE [d EXCEPT !.vertexCounter = 0,
                                   !.activeTextureId = [i \in 1..MaxTextureUnits |-> 0],
                                   !.flushes[Len(d.flushes)].steps =
                                       @ \o <<"resetVertexCounter", "clearActiveTextures">>,
                                   !.flushes[Len(d.flushes)].after.vertexCounter = 0]
    IN  Then(Draw(s, cause), Reset)

(* ------------------- Context::CheckRenderBatchLimit ------------------- *)
\* a limit check that reports the overflow without flushing
CheckRenderBatchLimitNoFlush(s, vCount, cause) ==
    [overflow |-> (s.vertexCounter + vCount) >= Capacity, s |-> s]

\* a limit check that flushes and restores nothing
CheckRenderBatchLimitNoRestore(s, vCount, cause) ==
    IF (s.vertexCounter + vCount) >= Capacity
    THEN [overflow |-> TRUE, s |-> DrawRenderBatch(s, cause)]
    ELSE [overflow |-> FALSE, s |-> s]

\* `resumed' of the flush record is the open call the caller goes on with
CheckRenderBatchLimit(s, vCount, cause) ==
    LET currentMode    == Last(s.drawQueue).mode
        currentTexture == Last(s.drawQueue).textureId
        Restored(call) == [call EXCEPT !.mode = currentMode, !.textureId = currentTexture]
        Restore(d) == IF d.hung THEN d
                      ELSE [d EXCEPT !.drawQueue = SetLast(@, Restored(Last(@))),
                                     !.flushes[Len(d.flushes)].resumed = Restored(@)]
    IN  IF (s.vertexCounter + vCount) >= Capacity
        THEN [overflow |-> TRUE, s |-> Then(DrawRenderBatch(s, cause), Restore)]
        ELSE [overflow |-> FALSE, s |-> s]

\* the padding of a Lines call stored whatever the mode of the call
AlignmentAsLines(call) ==
    IF call.vertexCount < 4 THEN call.vertexCount ELSE call.vertexCount % 4

\* the alignment Begin and SetTexture store in the call they close
Alignment(call) ==
    IF call.mode = "Lines"
    THEN (IF call.vertexCount < 4 THEN call.vertexCount ELSE call.vertexCount % 4)
    ELSE IF call.mode = "Triangles"
    THEN (IF call.vertexCount < 4 THEN 1 ELSE 4 - (call.vertexCount % 4))
    ELSE 0

\* RenderBatch::NewDrawCall, the drawCounter++ of rlgl.cpp
NewDrawCall(s) ==
    [s EXCEPT !.drawQueue = Append(@, DrawCall(DefaultTextureId)),
              !.firstIndex = Append(@, -1)]

\* the draw-call limit test that follows the closing of the open call
CheckDrawCallLimit(s) ==
    IF s.hung THEN s
    ELSE IF Len(s.drawQueue) >= RL_DEFAULT_BATCH_DRAWCALLS
    THEN DrawRenderBatch(s, "drawCallLimit")
    ELSE s

\* the common part of Begin and SetTexture: close the open call that holds
\* vertices (alignment, capacity check, next call), then the draw-call limit
CloseOpenCall(s) ==
    LET a == Alignment(Last(s.drawQueue))
        aligned == [s EXCEPT !.drawQueue = SetLast(@, [Last(@) EXCEPT
                                 !.vertexAlignment = a])]
        Close(chk) == IF chk.s.hung \/ chk.overflow THEN chk.s
                      ELSE NewDrawCall([chk.s EXCEPT !.vertexCounter = @ + a])
    IN  IF Last(s.drawQueue).vertexCount > 0
        THEN Then(Then(CheckRenderBatchLimit(aligned, a, "capacity"), Close),
                  CheckDrawCallLimit)
        ELSE CheckDrawCallLimit(s)

(* --------------------------- Context::Begin --------------------------- *)
\* Begin without the test of the open call's mode
BeginAlways(s, mode) ==
    LET Open(s1) == IF s1.hung THEN s1
                    ELSE [s1 EXCEPT !.drawQueue = SetLast(@, [Last(@) EXCEPT
                                        !.mode = mode,
                                        !.vertexCount = 0,
                                        !.textureId = DefaultTextureId])]
    IN  Then(CloseOpenCall(s), Open)

Begin(s, mode) ==
    LET Open(s1) == IF s1.hung THEN s1
                    ELSE [s1 EXCEPT !.drawQueue = SetLast(@, [Last(@) EXCEPT
                                        !.mode = mode,
                                        !.vertexCount = 0,
                                        !.textureId = DefaultTextureId])]
    IN  IF Last(s.drawQueue).mode # mode
        THEN Then(CloseOpenCall(s), Open)
        ELSE s

(* ---------------------------- Context::End ---------------------------- *)
End(s) == [s EXCEPT !.currentDepth = @ + 1]

(* --------------------------- Context::Vertex -------------------------- *)
\* the tail of Vertex: the vertex is stored at vertexCounter of the current
\* buffer, then vertexCounter and the open call's vertexCount are incremented
AddVertex(s) ==
    IF s.hung THEN s
    ELSE [s EXCEPT !.wrote = [index |-> s.vertexCounter, buffer |-> s.currentBuffer,
                              z |-> s.tz],
                   !.firstIndex[Len(s.drawQueue)] =
                       IF Last(s.drawQueue).vertexCount = 0 THEN s.vertexCounter ELSE @,
                   !.vertexCounter = @ + 1,
                   !.drawQueue[Len(s.drawQueue)].vertexCount = @ + 1]

\* Vertex without the vertexCount%2, %3, %4 tests: the batch is launched as
\* soon as the buffer is nearly full, whatever the open primitive
VertexAnyCount(s) ==
    LET open == Last(s.drawQueue)
    IN  Then(IF s.vertexCounter > (Capacity - 4)
             THEN CheckRenderBatchLimit(s, PrimSize(open.mode) + 1, "capacity").s
             ELSE s,
             AddVertex)

\* Vertex checking the limit one quad early
VertexEagerFlush(s) ==
    LET open == Last(s.drawQueue)
    IN  Then(IF s.vertexCounter >= (Capacity - 4)
                /\ open.vertexCount % PrimSize(open.mode) = 0
             THEN CheckRenderBatchLimit(s, PrimSize(open.mode) + 1, "capacity").s
             ELSE s,
             AddVertex)

\* Vertex checking the limit for the vertex it adds alone
VertexNoMargin(s) ==
    LET open == Last(s.drawQueue)
    IN  Then(IF s.vertexCounter > (Capacity - 4)
                /\ open.vertexCount % PrimSize(open.mode) = 0
             THEN CheckRenderBatchLimit(s, 1, "capacity").s
             ELSE s,
             AddVertex)

Vertex(s) ==
    LET open == Last(s.drawQueue)
    IN  Then(IF s.vertexCounter > (Capacity - 4)
             THEN (IF open.mode = "Lines" /\ open.vertexCount % 2 = 0
                   THEN CheckRenderBatchLimit(s, 2 + 1, "capacity").s
                   ELSE IF open.mode = "Triangles" /\ open.vertexCount % 3 = 0
                   THEN CheckRenderBatchLimit(s, 3 + 1, "capacity").s
                   ELSE IF open.mode = "Quads" /\ open.vertexCount % 4 = 0
                   THEN CheckRenderBatchLimit(s, 4 + 1, "capacity").s
                   ELSE s)
             ELSE s,
             AddVertex)

(* ------------------------- Context::SetTexture ------------------------ *)
\* SetTexture that flushes for id 0 as soon as no whole quad fits
SetTextureZeroEager(s, id) ==
    LET Open(s1) == IF s1.hung THEN s1
                    ELSE [s1 EXCEPT !.drawQueue = SetLast(@, [Last(@) EXCEPT
                                        !.textureId = id,
                                        !.vertexCount = 0])]
    IN  IF id = 0
        THEN (IF s.vertexCounter + 4 > Capacity
              THEN DrawRenderBatch(s, "setTextureZero") ELSE s)
        ELSE IF Last(s.drawQueue).textureId # id
        THEN Then(CloseOpenCall(s), Open)
        ELSE s

SetTexture(s, id) ==
    LET Open(s1) == IF s1.hung THEN s1
                    ELSE [s1 EXCEPT !.drawQueue = SetLast(@, [Last(@) EXCEPT
                                        !.textureId = id,
                                        !.vertexCount = 0])]
    IN  IF id = 0
        THEN (IF s.vertexCounter >= Capacity
              THEN DrawRenderBatch(s, "setTextureZero") ELSE s)
        ELSE IF Last(s.drawQueue).textureId # id
        THEN Then(CloseOpenCall(s), Open)
        ELSE s

(* -------------------- Context::DrawRenderBatchActive ------------------ *)
DrawRenderBatchActive(s) == DrawRenderBatch(s, "explicit")

(* -------------------------------- Init -------------------------------- *)
\* Context::Context builds the default batch and sets vertexCounter to 0.  The
\* RenderBatch constructor initialises bufferCount, drawQueueLimit and
\* currentDepth and queues one default call; it leaves currentBuffer
\* uninitialised, so the first read of it yields an indeterminate value (every
\* value that selects a buffer of the ring is modelled).
CallerStart == [mode |-> "None", fill |-> 0]
RunStart == [vertices |-> 0, flushes |-> 0, forced |-> FALSE]

BlendMode == {"Alpha", "Additive", "Multiplied", "AddColors", "SubtractColors",
              "AlphaPremultiply", "Custom", "CustomSeparate"}

\* what SetBlendMode hands to glBlendFunc / glBlendFuncSeparate and
\* glBlendEquation / glBlendEquationSeparate for a mode; custom and separate
\* name the stored factors a custom mode hands over (-1: none)
BlendFunc(mode, factors, factorsSeparate) ==
    LET Fixed(src, dst, eq) == [src |-> src, dst |-> dst, equation |-> eq,
                                custom |-> -1, separate |-> -1]
    IN  CASE mode = "Alpha"            -> Fixed("SRC_ALPHA", "ONE_MINUS_SRC_ALPHA", "FUNC_ADD")
          [] mode = "Additive"         -> Fixed("SRC_ALPHA", "ONE", "FUNC_ADD")
          [] mode = "Multiplied"       -> Fixed("DST_COLOR", "ONE_MINUS_SRC_ALPHA", "FUNC_ADD")
          [] mode = "AddColors"        -> Fixed("ONE", "ONE", "FUNC_ADD")
          [] mode = "SubtractColors"   -> Fixed("ONE", "ONE", "FUNC_SUBTRACT")
          [] mode = "AlphaPremultiply" -> Fixed("ONE", "ONE_MINUS_SRC_ALPHA", "FUNC_ADD")
          [] mode = "Custom"           -> [src |-> "stored", dst |-> "stored", equation |-> "stored",
                                           custom |-> factors, separate |-> -1]
          [] OTHER                     -> [src |-> "stored", dst |-> "stored", equation |-> "stored",
                                           custom |-> -1, separate |-> factorsSeparate]

\* Matrix::Identity; a product of matrices is the sequence of its factors
Identity == <<>>

\* the context owns its default batch, batch 0, for its whole life
defaultBatch == 0

\* a freshly constructed context: RenderBatch(bufferElements, numBuffers,
\* drawCallsLimit) leaves currentBuffer without a value, so it holds any;
\* the default batch is made without a drawCallsLimit and gets the default,
\* the default shader is current, the GL blends with the Alpha function
\* a GL that has generated no name
NoNames(vao) == [vao |-> vao, buffers |-> <<>>, vertexArrays |-> <<>>]

ConstructedContext(maxElements, maxCalls, who) ==
    /\ elementCount \in 1..maxElements
    /\ bufferCount = BufferCount
    /\ RL_DEFAULT_BATCH_DRAWCALLS \in 1..maxCalls
    /\ drawQueueLimit = RL_DEFAULT_BATCH_DRAWCALLS
    /\ vertexCounter = 0
    /\ drawQueue = <<DrawCall(DefaultTextureId)>>
    /\ currentBuffer \in 0..(BufferCount - 1)
    /\ currentDepth = 0
    /\ currentShaderId = DefaultShaderId
    /\ currentShaderLocs = DefaultShaderId
    /\ glBlend = BlendFunc("Alpha", -1, -1)
    /\ vboId = 1
    /\ stack = [i \in 0..RL_MAX_MATRIX_STACK_SIZE |-> Identity]
    /\ transform = Identity
    /\ projection = Identity
    /\ modelview = Identity
    /\ currentMatrix = "modelview"
    /\ currentBatch = defaultBatch
    /\ hung = FALSE
    /\ firstIndex = <<-1>>
    /\ pushed = <<>>
    /\ caller = who
    /\ run = RunStart
    /\ ev = [op |-> "Init", arg |-> 0, flushes |-> <<>>, wrote |-> NoWrite,
             thrown |-> FALSE]

\* a context whose caller makes no VertexBuffer of their own
Constructed(maxElements, maxCalls, who) ==
    /\ ConstructedContext(maxElements, maxCalls, who)
    /\ vertexBuffers = <<>>
    /\ gl = NoNames(TRUE)
    /\ heap = <<>>

\* the constructor gives State.stereoRender no value; a context that renders
\* in mono holds FALSE there, as DisableStereoRender leaves it
Mono == stereoRender = FALSE

\* the constructor gives the blend fields of State no value either; where no
\* operation reads them one value stands for all
BlendUnread ==
    /\ currentBlendMode = "Alpha"
    /\ glBlendFactors = 0
    /\ glBlendFactorsSeparate = 0
    /\ glCustomBlendModeModified = FALSE

\* nor State.activeTextureId; the operations modelled bind nothing by it, and
\* where none stores a texture there the empty slots stand for all
NoActiveTextures == activeTextureId = [i \in 1..MaxTextureUnits |-> 0]

\* nor State.stackCounter, State.transformRequired and
\* State.currentMatrixMode; a context whose matrix stack is not used holds
\* what all bits zero and a MatrixMode(ModelView) give
MatrixUnread ==
    /\ stackCounter = 0
    /\ transformRequired = FALSE
    /\ currentMatrixMode = "ModelView"

\* a context in mono with its default batch only
Fresh(maxElements, maxCalls, who) ==
    /\ Constructed(maxElements, maxCalls, who)
    /\ MatrixUnread
    /\ Mono
    /\ BlendUnread
    /\ NoActiveTextures
    /\ parked = <<>>

Init == Fresh(MaxElements, MaxDrawCalls, CallerStart)

(* ------------------------------ actions ------------------------------- *)
\* the state after an operation that ended in context s
Commit(s, op, arg) ==
    /\ vertexCounter' = s.vertexCounter
    /\ drawQueue' = s.drawQueue
    /\ currentBuffer' = s.currentBuffer
    /\ currentDepth' = s.currentDepth
    /\ firstIndex' = s.firstIndex
    /\ hung' = s.hung
    /\ ev' = [op |-> op, arg |-> arg, flushes |-> s.flushes, wrote |-> s.wrote,
              thrown |-> FALSE]
    /\ currentShaderId' = s.currentShaderId
    /\ currentShaderLocs' = s.currentShaderLocs
    /\ currentBlendMode' = s.currentBlendMode
    /\ glBlendFactors' = s.glBlendFactors
    /\ glBlendFactorsSeparate' = s.glBlendFactorsSeparate
    /\ glCustomBlendModeModified' = s.glCustomBlendModeModified
    /\ glBlend' = s.glBlend
    /\ activeTextureId' = s.activeTextureId
    /\ projection' = s.projection
    /\ modelview' = s.modelview
    /\ UNCHANGED <<elementCount, bufferCount, drawQueueLimit, RL_DEFAULT_BATCH_DRAWCALLS,
                   vboId, stereoRender, currentBatch, parked, transform, currentMatrixMode,
                   currentMatrix, transformRequired, stack, stackCounter, pushed,
                   vertexBuffers, gl, heap>>

\* one call of each operation of the context
DoBegin(mode) ==
    /\ ~hung
    /\ \E s \in {Begin(Ctx, mode)} : Commit(s, "Begin", mode)

DoVertex ==
    /\ ~hung
    /\ \E s \in {Vertex(Ctx)} : Commit(s, "Vertex", 0)

DoEnd ==
    /\ ~hung
    /\ currentDepth < MaxDepth
    /\ \E s \in {End(Ctx)} : Commit(s, "End", 0)

DoSetTexture(id) ==
    /\ ~hung
    /\ \E s \in {SetTexture(Ctx, id)} : Commit(s, "SetTexture", id)

DoDrawRenderBatchActive ==
    /\ ~hung
    /\ \E s \in {DrawRenderBatchActive(Ctx)} : Commit(s, "DrawRenderBatchActive", 0)

\* the calls in any order, with any arguments
CallBegin == \E mode \in DrawMode : DoBegin(mode) /\ UNCHANGED <<caller, run>>

CallVertex == DoVertex /\ UNCHANGED <<caller, run>>

CallEnd == DoEnd /\ UNCHANGED <<caller, run>>

CallSetTexture == \E id \in 0..MaxTextureId : DoSetTexture(id) /\ UNCHANGED <<caller, run>>

CallDrawRenderBatchActive == DoDrawRenderBatchActive /\ UNCHANGED <<caller, run>>

Next ==
    \/ CallBegin
    \/ CallVertex
    \/ CallEnd
    \/ CallSetTexture
    \/ CallDrawRenderBatchActive

Spec == Init /\ [][Next]_vars

(* ======================================================================= *)
(*                              properties                                 *)
(* ======================================================================= *)
\* the flushes the last operation ran, and the call that was open at a flush
Flushes == {ev.flushes[i] : i \in 1..Len(ev.flushes)}
OpenAt(f) == Last(f.queue)

\* C1: a capacity flush inside Vertex happens only when the open DrawCall's
\* vertexCount is a multiple of its primitive size (2 for Lines, 3 for
\* Triangles, 4 for Quads), so the vertex being added starts a primitive and
\* no primitive has vertices on both sides of the flush.
C1_NoSplitPrimitive ==
    ev.op = "Vertex" =>
        \A f \in Flushes :
            /\ f.cause = "capacity"
            /\ OpenAt(f).vertexCount % PrimSize(OpenAt(f).mode) = 0

\* a Vertex call flushed a Lines call that held complete lines
C1_Witness ==
    /\ ev.op = "Vertex"
    /\ \E f \in Flushes : OpenAt(f).mode = "Lines" /\ OpenAt(f).vertexCount >= 2
    /\ ev.wrote.index = 0

\* vertices and padding taken in the buffer by the first n calls of a queue
RECURSIVE Span(_, _)
Span(queue, n) ==
    IF n = 0 THEN 0
    ELSE Span(queue, n - 1) + queue[n].vertexCount + queue[n].vertexAlignment

\* C2: at every flush the k-th draw command starts at the offset that is the
\* sum of vertexCount + vertexAlignment of the calls queued before it, which is
\* the buffer index where that call's first vertex was written; and between
\* operations vertexCounter is that sum over the closed calls plus the open
\* call's vertexCount.
C2_OffsetThreading ==
    /\ \A f \in Flushes : \A k \in 1..Len(f.cmds) :
           /\ f.cmds[k].vertexOffset = Span(f.queue, k - 1)
           /\ f.queue[k].vertexCount > 0 => f.firstIndex[k] = f.cmds[k].vertexOffset
    /\ vertexCounter = Span(drawQueue, Len(drawQueue) - 1) + Last(drawQueue).vertexCount

\* a flush drew a call that starts behind the alignment padding of another
C2_Witness ==
    \E f \in Flushes : \E k \in 2..Len(f.cmds) :
        /\ f.queue[k - 1].vertexAlignment > 0
        /\ f.queue[k].vertexCount > 0
        /\ f.cmds[k].vertexOffset = f.firstIndex[k]

(* ------------------- batches driven by some calls --------------------- *)
\* driven by Begin, Vertex and DrawRenderBatchActive only
NextModes ==
    \/ CallBegin
    \/ CallVertex
    \/ CallDrawRenderBatchActive

InitModes == Fresh(MaxModeElements, MaxModeCalls, CallerStart)

SpecModes == InitModes /\ [][NextModes]_vars

\* driven by a caller that emits complete primitives: every call but Vertex
\* comes between two primitives, Vertex after a Begin, and an explicit flush
\* ends the sequence
PrimBegin ==
    \E mode \in DrawMode :
        /\ caller.fill = 0
        /\ DoBegin(mode)
        /\ caller' = [mode |-> mode, fill |-> 0]
        /\ UNCHANGED run

PrimVertex ==
    /\ caller.mode # "None"
    /\ DoVertex
    /\ caller' = [caller EXCEPT !.fill = (@ + 1) % PrimSize(caller.mode)]
    /\ UNCHANGED run

PrimEnd ==
    /\ caller.fill = 0
    /\ DoEnd
    /\ UNCHANGED <<caller, run>>

PrimSetTexture ==
    \E id \in 0..MaxTextureId :
        /\ caller.fill = 0
        /\ DoSetTexture(id)
        /\ UNCHANGED <<caller, run>>

PrimDrawRenderBatchActive ==
    /\ caller.fill = 0
    /\ DoDrawRenderBatchActive
    /\ caller' = CallerStart
    /\ UNCHANGED run

NextPrimitives ==
    \/ PrimBegin
    \/ PrimVertex
    \/ PrimEnd
    \/ PrimSetTexture
    \/ PrimDrawRenderBatchActive

SpecPrimitives == Init /\ [][NextPrimitives]_vars

\* driven by a caller that emits quads, switches the texture between two
\* quads and ends with an explicit flush; the open call of a fresh batch is
\* in Quads mode
InitTextures == Fresh(MaxQuads, MaxCalls, [mode |-> "Quads", fill |-> 0])

NextTextures ==
    \/ PrimSetTexture
    \/ PrimVertex
    \/ PrimDrawRenderBatchActive

SpecTextures == InitTextures /\ [][NextTextures]_vars

\* the k-th command of a flush is the draw of the k-th queued call
InQueueOrder(f) ==
    /\ Len(f.cmds) = Len(f.queue)
    /\ \A k \in 1..Len(f.cmds) :
           /\ f.cmds[k].textureId = f.queue[k].textureId
           /\ f.cmds[k].mode = f.queue[k].mode
           /\ f.cmds[k].vertexOffset = Span(f.queue, k - 1)
           /\ f.cmds[k].count = IF f.queue[k].mode = "Quads"
                                THEN (f.queue[k].vertexCount \div 4) * 6
                                ELSE f.queue[k].vertexCount

\* C3: a flush that has vertices issues one draw command per queued DrawCall,
\* the k-th command for the k-th call in the order the calls were queued; and
\* a SetTexture to a texture other than the open call's, after vertices, opens
\* a new call behind the queued ones even when an earlier call has the same
\* texture: nothing is merged or reordered.
C3_FifoNoMerge ==
    [][ /\ \A i \in 1..Len(ev'.flushes) :
               ev'.flushes[i].vertexCounter > 0 => InQueueOrder(ev'.flushes[i])
        /\ ( /\ ev'.op = "SetTexture"
             /\ ev'.arg # 0
             /\ ev'.arg # Last(drawQueue).textureId
             /\ Last(drawQueue).vertexCount > 0
             /\ ev'.flushes = <<>> )
           => /\ Len(drawQueue') = Len(drawQueue) + 1
              /\ Last(drawQueue').textureId = ev'.arg
              /\ \A k \in 1..Len(drawQueue) :
                     /\ drawQueue'[k].textureId = drawQueue[k].textureId
                     /\ drawQueue'[k].vertexCount = drawQueue[k].vertexCount ]_vars

\* one flush drew three calls with textures A, B, A, each holding a quad
C3_Witness ==
    \E f \in Flushes :
        /\ Len(f.cmds) = 3
        /\ f.cmds[1].textureId # f.cmds[2].textureId
        /\ f.cmds[3].textureId = f.cmds[1].textureId
        /\ \A k \in 1..3 : f.queue[k].vertexCount >= 4

(* ------------------------- vertices and commands ---------------------- *)
\* the element indices of one quad, as the VertexBuffer constructor fills them
QuadIndices == <<0, 1, 2, 0, 2, 3>>

\* the buffer vertices a draw command reads: glDrawArrays(mode, first, count)
\* reads first .. first+count-1, glDrawElements reads the vertices named by
\* count indices from index position first on
Covered(cmd) ==
    IF cmd.kind = "arrays" THEN cmd.first .. (cmd.first + cmd.count - 1)
    ELSE {4 * (i \div 6) + QuadIndices[(i % 6) + 1] :
              i \in cmd.first .. (cmd.first + cmd.count - 1)}

\* the buffer indices where the vertices of the k-th queued call were written
Written(f, k) ==
    IF f.queue[k].vertexCount = 0 THEN {}
    ELSE f.firstIndex[k] .. (f.firstIndex[k] + f.queue[k].vertexCount - 1)

\* C4: in a sequence of complete primitives every vertex accumulated at a
\* flush is read by exactly one draw command of that flush.
C4_NoVertexDropped ==
    \A f \in Flushes : \A k \in 1..Len(f.queue) : \A v \in Written(f, k) :
        Cardinality({j \in 1..Len(f.cmds) : v \in Covered(f.cmds[j])}) = 1

\* C5: every vertex is written at an index below the capacity elementCount*4
\* of the buffer, vertexCounter never exceeds that capacity, and no call ends
\* without returning: a full buffer is flushed inside the call.
C5_CapacityAbsorbed ==
    /\ elementCount >= 1
    /\ vertexCounter <= Capacity
    /\ ev.wrote # NoWrite => (ev.wrote.index >= 0 /\ ev.wrote.index < Capacity)
    /\ ~hung

\* a Vertex call found the buffer full to its last vertex, flushed it and
\* wrote at index 0
C5_Witness ==
    /\ ev.op = "Vertex"
    /\ \E f \in Flushes : f.cause = "capacity" /\ f.vertexCounter = Capacity
    /\ ev.wrote.index = 0
    /\ vertexCounter = 1

\* C6: every flush, whatever started it and with or without vertices, leaves
\* vertexCounter at 0 and a queue of exactly one DrawCall that has the
\* default texture and no vertices.
C6_AfterFlush ==
    \A f \in Flushes :
        /\ f.after.vertexCounter = 0
        /\ Len(f.after.drawQueue) = 1
        /\ f.after.drawQueue[1].textureId = DefaultTextureId
        /\ f.after.drawQueue[1].vertexCount = 0

(* ----------------------- runs in one drawing mode --------------------- *)
\* driven by a caller that emits complete primitives of one mode, Begin
\* before any of them, and may force a flush between two primitives; the
\* vertices emitted and the flushes run are counted
Counted(vertices, forced) ==
    run' = [vertices |-> run.vertices + vertices,
            flushes  |-> run.flushes + Len(ev'.flushes),
            forced   |-> run.forced \/ forced]

RunBegin ==
    \E mode \in DrawMode :
        /\ caller.fill = 0
        /\ caller.mode \in {"None", mode}
        /\ DoBegin(mode)
        /\ caller' = [mode |-> mode, fill |-> 0]
        /\ Counted(0, FALSE)

RunVertex ==
    /\ caller.mode # "None"
    /\ run.vertices < MaxRunVertices
    /\ DoVertex
    /\ caller' = [caller EXCEPT !.fill = (@ + 1) % PrimSize(caller.mode)]
    /\ Counted(1, FALSE)

RunDrawRenderBatchActive ==
    /\ caller.fill = 0
    /\ run.flushes < MaxRunFlushes
    /\ DoDrawRenderBatchActive
    /\ caller' = CallerStart
    /\ Counted(0, TRUE)

InitRuns == Fresh(MaxQuads, MaxCalls, CallerStart)

NextRuns ==
    \/ RunBegin
    \/ RunVertex
    \/ RunDrawRenderBatchActive

SpecRuns == InitRuns /\ [][NextRuns]_vars

\* C7: with three buffers the first flush of a batch uses generation 0 and
\* the n-th flush generation (n-1) mod 3, flushes without vertices included.
C7_GenerationRotation ==
    bufferCount = 3 =>
        \A i \in 1..Len(ev.flushes) :
            ev.flushes[i].buffer = (run.flushes - Len(ev.flushes) + i - 1) % 3

\* where an effect appears among the steps of a flush
Positions(steps, effect) == {i \in 1..Len(steps) : steps[i] = effect}

\* C8: currentBuffer changes only in a flush: a call moves it by one
\* generation per flush it runs and leaves it alone when it runs none; each
\* flush advances the buffer once and resets vertexCounter once, both after
\* the last draw command of that flush.
C8_FlushEffects ==
    [][ /\ currentBuffer' = (currentBuffer + Len(ev'.flushes)) % bufferCount
        /\ \A i \in 1..Len(ev'.flushes) :
               LET steps == ev'.flushes[i].steps
               IN  /\ Cardinality(Positions(steps, "advanceBuffer")) = 1
                   /\ Cardinality(Positions(steps, "resetVertexCounter")) = 1
                   /\ \A d \in Positions(steps, "draw") :
                          /\ \A a \in Positions(steps, "advanceBuffer") : d < a
                          /\ \A r \in Positions(steps, "resetVertexCounter") : d < r
                   /\ Cardinality(Positions(steps, "draw")) = Len(ev'.flushes[i].cmds) ]_vars

\* a call flushed a batch with draw commands and the batch moved on to the
\* next buffer with vertexCounter at 0
C8_Witness ==
    /\ \E f \in Flushes :
           /\ Len(f.cmds) >= 1
           /\ currentBuffer = (f.buffer + 1) % bufferCount
           /\ f.after.vertexCounter = 0
    /\ Len(ev.flushes) = 1
    /\ ev.op \in {"Begin", "SetTexture"}

\* a run of quads, or of lines, that no draw-call limit or explicit flush
\* has interrupted
QuadRun == caller.mode = "Quads" /\ ~run.forced

LineRun == caller.mode = "Lines" /\ caller.fill = 0 /\ ~run.forced /\ drawQueueLimit > 1

\* C9: in a run of quads from a fresh batch of Q = elementCount quads no
\* flush happens while the first 4Q vertices are emitted; the Vertex call for
\* vertex 4Q+1 runs exactly one flush, of the full buffer, and writes its
\* vertex at index 0 of the next buffer; no other flush follows before that
\* buffer is full in turn.
C9_QuadOverflow ==
    QuadRun =>
        /\ run.vertices <= 4 * elementCount => run.flushes = 0
        /\ (run.vertices > 4 * elementCount /\ run.vertices <= 8 * elementCount)
               => run.flushes = 1
        /\ (run.vertices = 4 * elementCount + 1 /\ ev.op = "Vertex")
               => /\ Len(ev.flushes) = 1
                  /\ ev.flushes[1].vertexCounter = 4 * elementCount
                  /\ ev.wrote.index = 0
                  /\ ev.wrote.buffer = (ev.flushes[1].buffer + 1) % bufferCount

\* 20 quad vertices went into a buffer of 4 quads, with one flush
C9_Witness ==
    /\ QuadRun
    /\ elementCount = 4
    /\ run.vertices = 20
    /\ run.flushes = 1

\* C10 as stated: after N lines, T = 2N vertices, the flushes run are
\* floor(T / (elementCount*4)).
C10_LinesFlushCount ==
    LineRun => run.flushes = run.vertices \div Capacity

\* C10 amended: Vertex launches the batch before a line when fewer than 3
\* vertices are free, so a buffer takes elementCount*4 - 2 line vertices and
\* after T = 2N >= 2 vertices the flushes run are floor((T-1)/(elementCount*4-2)).
C10_LinesFlushCountAmended ==
    LineRun => run.flushes = IF run.vertices = 0 THEN 0
                             ELSE (run.vertices - 1) \div (Capacity - 2)

\* 14 line vertices went into buffers of 8: two flushes, where T \div 8 is one
C10_Witness ==
    /\ LineRun
    /\ Capacity = 8
    /\ run.vertices = 14
    /\ run.flushes = 2

(* --------------------------- closed calls ----------------------------- *)
\* Begin(Quads) has just closed a Triangles call whose vertexCount is not a
\* multiple of 4, without any flush, and opened a call for the quads
TrianglesClosedByQuads ==
    /\ ev.op = "Begin"
    /\ ev.arg = "Quads"
    /\ ev.flushes = <<>>
    /\ Len(drawQueue) >= 2
    /\ drawQueue[Len(drawQueue) - 1].mode = "Triangles"
    /\ drawQueue[Len(drawQueue) - 1].vertexCount % 4 # 0
    /\ Last(drawQueue).vertexCount = 0

\* the closed call has padding 4 - (vertexCount % 4) and the quads start
\* behind it at a multiple of 4
PaddedToFour ==
    LET closed == drawQueue[Len(drawQueue) - 1]
        start  == firstIndex[Len(drawQueue) - 1]
    IN  /\ closed.vertexAlignment = 4 - (closed.vertexCount % 4)
        /\ vertexCounter = start + closed.vertexCount + closed.vertexAlignment
        /\ vertexCounter % 4 = 0

InitSwitches == Fresh(MaxElements, MaxModeCalls, CallerStart)

NextSwitches ==
    \/ PrimBegin
    \/ PrimVertex
    \/ PrimSetTexture
    \/ PrimDrawRenderBatchActive

SpecSwitches == InitSwitches /\ [][NextSwitches]_vars

\* C12: SetTexture(id), id # 0 and not the open call's texture, on an open
\* call that holds vertices and without a flush, closes that call with its
\* alignment padding and opens a call with textureId = id, no vertices and
\* the mode of the call it closed.
C12_TextureSwitchKeepsMode ==
    [][ ( /\ ev'.op = "SetTexture"
          /\ ev'.arg # 0
          /\ ev'.arg # Last(drawQueue).textureId
          /\ Last(drawQueue).vertexCount > 0
          /\ ev'.flushes = <<>> )
        => /\ Len(drawQueue') = Len(drawQueue) + 1
           /\ drawQueue'[Len(drawQueue)] =
                  [Last(drawQueue) EXCEPT !.vertexAlignment = Alignment(Last(drawQueue))]
           /\ Last(drawQueue') = [mode |-> Last(drawQueue).mode, vertexCount |-> 0,
                                  vertexAlignment |-> 0, textureId |-> ev'.arg] ]_vars

(* --------------------------- draw commands ---------------------------- *)
\* C13: at a flush that draws, every queued call issues exactly one draw
\* command; for a Quads call of 4k vertices at an offset o that is a multiple
\* of 4 it is an indexed draw of 6k indices whose index values name exactly
\* the vertices o .. o+4k-1; for a Lines or Triangles call it is an unindexed
\* draw of vertexCount vertices starting at o.
C13_QuadRendering ==
    \A f \in Flushes : f.vertexCounter > 0 =>
        /\ Len(f.cmds) = Len(f.queue)
        /\ \A k \in 1..Len(f.cmds) :
               LET call == f.queue[k]
                   cmd  == f.cmds[k]
                   o    == cmd.vertexOffset
               IN  /\ ( /\ call.mode = "Quads"
                        /\ call.vertexCount % 4 = 0
                        /\ o % 4 = 0 )
                       => /\ cmd.kind = "elements"
                          /\ cmd.count = 6 * (call.vertexCount \div 4)
                          /\ Covered(cmd) = o .. (o + call.vertexCount - 1)
                   /\ call.mode \in {"Lines", "Triangles"}
                       => /\ cmd.kind = "arrays"
                          /\ cmd.mode = call.mode
                          /\ cmd.first = o
                          /\ cmd.count = call.vertexCount

\* a flush drew one quad that lies behind a padded Lines call, and the Lines call
C13_Witness ==
    \E f \in Flushes : \E k \in 2..Len(f.cmds) :
        /\ f.queue[k].mode = "Quads" /\ f.queue[k].vertexCount = 4
        /\ f.cmds[k].vertexOffset = 4 /\ f.cmds[k].first = 6 /\ f.cmds[k].count = 6
        /\ f.queue[k - 1].mode = "Lines" /\ f.cmds[k - 1].kind = "arrays"
        /\ f.cmds[k - 1].count = 2

(* --------------------------- Context::SetShader ----------------------- *)

\* SetShader with the new shader stored before the flush
SetShaderSwitchFirst(s, id, locs) ==
    IF s.currentShaderId # id
    THEN DrawRenderBatch([s EXCEPT !.currentShaderId = id, !.currentShaderLocs = locs],
                         "shader")
    ELSE s

SetShader(s, id, locs) ==
    LET Switch(d) == IF d.hung THEN d
                     ELSE [d EXCEPT !.currentShaderId = id, !.currentShaderLocs = locs]
    IN  IF s.currentShaderId # id
        THEN Then(DrawRenderBatch(s, "shader"), Switch)
        ELSE s

DoSetShader(id, locs) ==
    /\ ~hung
    /\ \E s \in {SetShader(Ctx, id, locs)} : Commit(s, "SetShader", <<id, locs>>)

CallSetShader ==
    \E id \in 0..MaxShaderId, locs \in 0..MaxShaderId :
        DoSetShader(id, locs) /\ UNCHANGED <<caller, run>>

\* quads emitted under shaders that change
NextShaders ==
    \/ CallVertex
    \/ CallSetShader
    \/ CallDrawRenderBatchActive

SpecShaders == Init /\ [][NextShaders]_vars

\* C14: SetShader with an id that differs from the current shader flushes
\* the batch, with all the vertices accumulated so far, under the shader that
\* was current before the call, and only then stores the new id and
\* locations; with the id of the current shader it flushes nothing and changes
\* no state.
C14_ShaderSwitchIsolates ==
    [][ ev'.op = "SetShader" =>
          IF ev'.arg[1] # currentShaderId
          THEN /\ Len(ev'.flushes) = 1
               /\ ev'.flushes[1].shaderId = currentShaderId
               /\ ev'.flushes[1].vertexCounter = vertexCounter
               /\ ev'.flushes[1].queue = drawQueue
               /\ vertexCounter' = 0
               /\ currentShaderId' = ev'.arg[1]
               /\ currentShaderLocs' = ev'.arg[2]
          ELSE /\ ev'.flushes = <<>>
               /\ UNCHANGED <<elementCount, bufferCount, drawQueueLimit,
                              RL_DEFAULT_BATCH_DRAWCALLS, vboId, activeTextureId,
                              projection, modelview, transform, currentMatrixMode,
                              currentMatrix, transformRequired, stack, stackCounter,
                              vertexCounter,
                              drawQueue, currentBuffer, currentDepth, stereoRender,
                              currentShaderId, currentShaderLocs, currentBlendMode,
                              glBlendFactors, glBlendFactorsSeparate,
                              glCustomBlendModeModified, glBlend, currentBatch, parked,
                              hung, firstIndex>> ]_vars

\* SetShader flushed a batch with a whole quad under the shader it replaced
C14_Witness ==
    /\ ev.op = "SetShader"
    /\ Len(ev.flushes) = 1
    /\ ev.flushes[1].vertexCounter = 4
    /\ Len(ev.flushes[1].cmds) = 1
    /\ ev.flushes[1].shaderId # currentShaderId
    /\ currentShaderId = ev.arg[1]

(* ------------------- Context::SetBlendMode and factors ---------------- *)
\* SetBlendMode handing the mode to the GL before the flush
SetBlendModeApplyFirst(s, mode) ==
    IF \/ s.currentBlendMode # mode
       \/ (mode \in {"Custom", "CustomSeparate"} /\ s.glCustomBlendModeModified)
    THEN DrawRenderBatch([s EXCEPT !.glBlend = BlendFunc(mode, s.glBlendFactors,
                                                         s.glBlendFactorsSeparate),
                                   !.currentBlendMode = mode,
                                   !.glCustomBlendModeModified = FALSE], "blend")
    ELSE s

SetBlendMode(s, mode) ==
    LET Apply(d) == IF d.hung THEN d
                    ELSE [d EXCEPT !.glBlend = BlendFunc(mode, d.glBlendFactors,
                                                         d.glBlendFactorsSeparate),
                                   !.currentBlendMode = mode,
                                   !.glCustomBlendModeModified = FALSE]
    IN  IF \/ s.currentBlendMode # mode
           \/ (mode \in {"Custom", "CustomSeparate"} /\ s.glCustomBlendModeModified)
        THEN Then(DrawRenderBatch(s, "blend"), Apply)
        ELSE s

SetBlendFactors(s, factors) ==
    IF s.glBlendFactors # factors
    THEN [s EXCEPT !.glBlendFactors = factors, !.glCustomBlendModeModified = TRUE]
    ELSE s

SetBlendFactorsSeparate(s, factors) ==
    IF s.glBlendFactorsSeparate # factors
    THEN [s EXCEPT !.glBlendFactorsSeparate = factors, !.glCustomBlendModeModified = TRUE]
    ELSE s

CallSetBlendMode ==
    /\ ~hung
    /\ \E mode \in BlendMode : \E s \in {SetBlendMode(Ctx, mode)} :
           Commit(s, "SetBlendMode", mode)
    /\ UNCHANGED <<caller, run>>

CallSetBlendFactors ==
    /\ ~hung
    /\ \E factors \in 0..MaxFactor : \E s \in {SetBlendFactors(Ctx, factors)} :
           Commit(s, "SetBlendFactors", factors)
    /\ UNCHANGED <<caller, run>>

CallSetBlendFactorsSeparate ==
    /\ ~hung
    /\ \E factors \in 0..MaxFactor : \E s \in {SetBlendFactorsSeparate(Ctx, factors)} :
           Commit(s, "SetBlendFactorsSeparate", factors)
    /\ UNCHANGED <<caller, run>>

\* the blend fields of State hold whatever the constructor found there: any
\* mode or a value that is none, any factors, either flag
InitBlend ==
    /\ Constructed(MaxBlendElements, MaxBlendCalls, CallerStart)
    /\ MatrixUnread
    /\ Mono
    /\ NoActiveTextures
    /\ parked = <<>>
    /\ currentBlendMode \in BlendMode \cup {"Invalid"}
    /\ glBlendFactors \in 0..MaxFactor
    /\ glBlendFactorsSeparate \in 0..MaxFactor
    /\ glCustomBlendModeModified \in BOOLEAN

\* quads emitted under blend modes that change
NextBlend ==
    \/ CallVertex
    \/ CallSetBlendMode
    \/ CallSetBlendFactors
    \/ CallSetBlendFactorsSeparate

SpecBlend == InitBlend /\ [][NextBlend]_vars

\* SetBlendMode is about to hand a blend configuration to the GL
AppliesBlend(mode) ==
    \/ currentBlendMode # mode
    \/ (mode \in {"Custom", "CustomSeparate"} /\ glCustomBlendModeModified)

\* C15: whenever SetBlendMode applies a blend configuration to the GL (the
\* mode differs, or it is Custom/CustomSeparate and the factors were changed
\* since), the batch with all the vertices accumulated so far is flushed
\* first, under the configuration the GL had before the call; and the GL's
\* configuration changes in no other way, so every flush draws under one
\* configuration.
C15_BlendNeverStraddles ==
    [][ /\ (ev'.op = "SetBlendMode" /\ AppliesBlend(ev'.arg))
           => /\ Len(ev'.flushes) = 1
              /\ ev'.flushes[1].blend = glBlend
              /\ ev'.flushes[1].vertexCounter = vertexCounter
              /\ ev'.flushes[1].queue = drawQueue
              /\ vertexCounter' = 0
              /\ glBlend' = BlendFunc(ev'.arg, glBlendFactors, glBlendFactorsSeparate)
        /\ glBlend' # glBlend
           => /\ ev'.op = "SetBlendMode"
              /\ Len(ev'.flushes) = 1
              /\ ev'.flushes[1].blend = glBlend ]_vars

\* SetBlendMode(Custom), the mode already current, after the factors were
\* changed: a whole quad was flushed under the previous factors
C15_Witness ==
    /\ ev.op = "SetBlendMode" /\ ev.arg = "Custom"
    /\ Len(ev.flushes) = 1
    /\ ev.flushes[1].vertexCounter = 4
    /\ ev.flushes[1].blend.custom \notin {-1, glBlendFactors}
    /\ glBlend.custom = glBlendFactors

(* --------------------- Context::SetRenderBatchActive ------------------ *)
\* the null pointer, and the batches the caller has constructed
NullBatch == -1
UserBatches == {1}

\* a batch as its constructor leaves it
NewBatch(elements, limit, buffer) ==
    [elementCount |-> elements, bufferCount |-> BufferCount, drawQueueLimit |-> limit,
     drawQueue |-> <<DrawCall(DefaultTextureId)>>, currentBuffer |-> buffer,
     currentDepth |-> 0, firstIndex |-> <<-1>>, vboId |-> 1]

\* a switch of batches that leaves the current batch as it is
SwitchWithoutFlush(s) == s

\* the first statement of SetRenderBatchActive: DrawRenderBatch(currentBatch)
FlushCurrentBatch(s) == DrawRenderBatch(s, "batch")

\* SetRenderBatchActive(batch): DrawRenderBatch(currentBatch), then
\* currentBatch = defaultBatch, then the exception for a null batch, else
\* currentBatch = batch
CallSetRenderBatchActive ==
    /\ ~hung
    /\ \E batch \in {NullBatch} \cup (UserBatches \cap (DOMAIN parked \cup {currentBatch})) :
       \E s \in {FlushCurrentBatch(Ctx)} :
          LET left   == [elementCount |-> elementCount, bufferCount |-> bufferCount,
                         drawQueueLimit |-> drawQueueLimit, drawQueue |-> s.drawQueue,
                         currentBuffer |-> s.currentBuffer,
                         currentDepth |-> s.currentDepth, firstIndex |-> s.firstIndex,
                         vboId |-> vboId]
              all    == [b \in DOMAIN parked \cup {currentBatch} |->
                            IF b = currentBatch THEN left ELSE parked[b]]
              thrown == batch = NullBatch
              target == IF s.hung THEN currentBatch
                        ELSE IF thrown THEN defaultBatch ELSE batch
          IN  /\ currentBatch' = target
              /\ parked' = [b \in DOMAIN all \ {target} |-> all[b]]
              /\ elementCount' = all[target].elementCount
              /\ bufferCount' = all[target].bufferCount
              /\ drawQueueLimit' = all[target].drawQueueLimit
              /\ drawQueue' = all[target].drawQueue
              /\ currentBuffer' = all[target].currentBuffer
              /\ currentDepth' = all[target].currentDepth
              /\ firstIndex' = all[target].firstIndex
              /\ vboId' = all[target].vboId
              /\ vertexCounter' = s.vertexCounter
              /\ activeTextureId' = s.activeTextureId
              /\ projection' = s.projection
              /\ modelview' = s.modelview
              /\ hung' = s.hung
              /\ ev' = [op |-> "SetRenderBatchActive", arg |-> batch,
                        flushes |-> s.flushes, wrote |-> s.wrote,
                        thrown |-> (~s.hung /\ thrown)]
    /\ UNCHANGED <<transform, currentMatrixMode, currentMatrix, transformRequired, stack,
                   stackCounter, pushed, vertexBuffers, gl, heap>>
    /\ UNCHANGED <<RL_DEFAULT_BATCH_DRAWCALLS, stereoRender, currentShaderId,
                   currentShaderLocs, currentBlendMode, glBlendFactors,
                   glBlendFactorsSeparate, glCustomBlendModeModified, glBlend,
                   caller, run>>

\* a context and one batch of the caller's, made with a drawCallsLimit of its own
InitBatches ==
    /\ Constructed(MaxBatchElements, MaxBatchCalls, CallerStart)
    /\ MatrixUnread
    /\ Mono
    /\ BlendUnread
    /\ NoActiveTextures
    /\ \E elements \in 1..MaxBatchElements, limit \in 1..MaxBatchCalls,
          buffer \in 0..(BufferCount - 1) :
           parked = [b \in UserBatches |-> NewBatch(elements, limit, buffer)]

NextBatches ==
    \/ CallBegin
    \/ CallVertex
    \/ CallSetRenderBatchActive

SpecBatches == InitBatches /\ [][NextBatches]_vars

\* C16: between operations the current batch queues at least one DrawCall and
\* no more than its configured draw-call limit.
C16_DrawCallQueueBound ==
    /\ Len(drawQueue) >= 1
    /\ Len(drawQueue) <= drawQueueLimit

\* C19: SetRenderBatchActive with a null batch ends with the exception and
\* leaves the batch that was current before the call current.
C19_NullBatchRejected ==
    [][ (ev'.op = "SetRenderBatchActive" /\ ev'.arg = NullBatch)
        => /\ ev'.thrown
           /\ currentBatch' = currentBatch ]_vars

\* C20: SetRenderBatchActive with a null batch returns without an exception
\* and leaves the default batch current.
C20_NullSelectsDefault ==
    [][ (ev'.op = "SetRenderBatchActive" /\ ev'.arg = NullBatch)
        => /\ ~ev'.thrown
           /\ currentBatch' = defaultBatch ]_vars

(* ------------- Context::EnableStereoRender, DisableStereoRender ------- *)
CallEnableStereoRender ==
    /\ ~hung
    /\ stereoRender' = TRUE
    /\ ev' = [op |-> "EnableStereoRender", arg |-> 0, flushes |-> <<>>,
              wrote |-> NoWrite, thrown |-> FALSE]
    /\ UNCHANGED <<elementCount, bufferCount, drawQueueLimit, RL_DEFAULT_BATCH_DRAWCALLS,
                   vboId, activeTextureId, projection, modelview, transform,
                   currentMatrixMode, currentMatrix, transformRequired, stack, stackCounter,
                   pushed, vertexBuffers, gl, heap,
                   vertexCounter, drawQueue, currentBuffer, currentDepth,
                   currentShaderId, currentShaderLocs, currentBlendMode, glBlendFactors,
                   glBlendFactorsSeparate, glCustomBlendModeModified, glBlend,
                   currentBatch, parked, hung, firstIndex, caller, run>>

CallDisableStereoRender ==
    /\ ~hung
    /\ stereoRender' = FALSE
    /\ ev' = [op |-> "DisableStereoRender", arg |-> 0, flushes |-> <<>>,
              wrote |-> NoWrite, thrown |-> FALSE]
    /\ UNCHANGED <<elementCount, bufferCount, drawQueueLimit, RL_DEFAULT_BATCH_DRAWCALLS,
                   vboId, activeTextureId, projection, modelview, transform,
                   currentMatrixMode, currentMatrix, transformRequired, stack, stackCounter,
                   pushed, vertexBuffers, gl, heap,
                   vertexCounter, drawQueue, currentBuffer, currentDepth,
                   currentShaderId, currentShaderLocs, currentBlendMode, glBlendFactors,
                   glBlendFactorsSeparate, glCustomBlendModeModified, glBlend,
                   currentBatch, parked, hung, firstIndex, caller, run>>

\* State.stereoRender holds whatever the constructor found there
InitStereo ==
    /\ Constructed(MaxElements, MaxDrawCalls, CallerStart)
    /\ MatrixUnread
    /\ stereoRender \in BOOLEAN
    /\ BlendUnread
    /\ NoActiveTextures
    /\ parked = <<>>

NextStereo ==
    \/ CallBegin
    \/ CallVertex
    \/ CallDrawRenderBatchActive
    \/ CallEnableStereoRender
    \/ CallDisableStereoRender

SpecStereo == InitStereo /\ [][NextStereo]_vars

\* C17: with stereo rendering enabled, a flush of accumulated vertices issues
\* the draw commands of the queued calls in queue order, offsets from 0, once
\* for the first eye and once more for the second, and leaves the queue
\* drained to one default call.
C17_StereoFlush ==
    [][ (stereoRender /\ vertexCounter > 0 /\ ev'.op = "DrawRenderBatchActive")
        => /\ ~hung'
           /\ Len(ev'.flushes) = 1
           /\ ev'.flushes[1].cmds = RenderQueue(drawQueue, 0) \o RenderQueue(drawQueue, 0)
           /\ drawQueue' = <<DrawCall(DefaultTextureId)>> ]_vars

\* C18: no call is left inside a flush that does not return.
C18_EveryFlushReturns == ~hung

(* ---------------------- RenderBatch::RenderBatch ---------------------- *)
\* The caller constructs its batch: every buffer is constructed with
\* bufferElements, vboId holds what glGenBuffers gave (0: nothing), the limit
\* is stored as given, one default call is queued; nothing is tested and
\* nothing is thrown.
CallRenderBatch ==
    /\ ~hung
    /\ \E batch \in UserBatches \ (DOMAIN parked \cup {currentBatch}) :
       \E elements \in 1..MaxBatchElements, limit \in 0..MaxBatchCalls,
          buffer \in 0..(BufferCount - 1), handle \in {0, 1} :
           /\ parked' = [b \in DOMAIN parked \cup {batch} |->
                            IF b = batch
                            THEN [NewBatch(elements, limit, buffer) EXCEPT !.vboId = handle]
                            ELSE parked[b]]
           /\ ev' = [op |-> "RenderBatch",
                     arg |-> [batch |-> batch, drawCallsLimit |-> limit, vboId |-> handle],
                     flushes |-> <<>>, wrote |-> NoWrite, thrown |-> FALSE]
    /\ UNCHANGED <<elementCount, bufferCount, drawQueueLimit, RL_DEFAULT_BATCH_DRAWCALLS,
                   vboId, activeTextureId, projection, modelview, transform,
                   currentMatrixMode, currentMatrix, transformRequired, stack, stackCounter,
                   pushed, vertexBuffers, gl, heap,
                   vertexCounter, drawQueue, currentBuffer, currentDepth, stereoRender,
                   currentShaderId, currentShaderLocs, currentBlendMode, glBlendFactors,
                   glBlendFactorsSeparate, glCustomBlendModeModified, glBlend,
                   currentBatch, hung, firstIndex, caller, run>>

\* a context whose caller constructs a batch and makes it current
NextConstruct ==
    \/ CallRenderBatch
    \/ CallSetRenderBatchActive
    \/ CallBegin
    \/ CallVertex

SpecConstruct == Fresh(MaxBatchElements, MaxBatchCalls, CallerStart) /\ [][NextConstruct]_vars

\* C21: the construction of a batch with a draw-call limit of 0 ends with an
\* error and leaves no batch behind, and the current batch never has the
\* limit 0.
C21_ZeroLimitRejected ==
    [][ /\ (ev'.op = "RenderBatch" /\ ev'.arg.drawCallsLimit = 0)
           => (ev'.thrown /\ parked' = parked)
        /\ drawQueueLimit' # 0 ]_vars

\* C22: the construction of a batch whose buffers the GL gave no handle ends
\* with an error and leaves no batch behind, and the current batch never has
\* buffers without a handle.
C22_ConstructionFailureFatal ==
    [][ /\ (ev'.op = "RenderBatch" /\ ev'.arg.vboId = 0)
           => (ev'.thrown /\ parked' = parked)
        /\ vboId' # 0 ]_vars

(* ------------------------ the call in flight -------------------------- *)
\* C23: a capacity flush run through CheckRenderBatchLimit hands back an open
\* DrawCall with the mode and the textureId of the call that was open before
\* it and no vertices; when Vertex ran it, the vertex is written at index 0
\* of the buffer that follows the flushed one and the open call still has that
\* mode and texture.
C23_FlushKeepsCallInFlight ==
    \A f \in Flushes : f.cause = "capacity" =>
        /\ f.resumed.mode = OpenAt(f).mode
        /\ f.resumed.textureId = OpenAt(f).textureId
        /\ f.resumed.vertexCount = 0
        /\ ev.op = "Vertex" =>
              /\ ev.wrote.index = 0
              /\ ev.wrote.buffer = (f.buffer + 1) % bufferCount
              /\ Last(drawQueue) = [f.resumed EXCEPT !.vertexCount = 1]

\* Vertex flushed a full buffer of lines drawn with a texture of the caller's
\* and wrote the next line's first vertex into the following buffer
C23_Witness ==
    /\ ev.op = "Vertex"
    /\ \E f \in Flushes :
          /\ f.cause = "capacity"
          /\ OpenAt(f).mode = "Lines" /\ OpenAt(f).textureId = 2
          /\ f.resumed.mode = "Lines" /\ f.resumed.textureId = 2
    /\ ev.wrote.index = 0
    /\ Last(drawQueue).mode = "Lines" /\ Last(drawQueue).textureId = 2

\* C24: Begin with the mode the open DrawCall already has adds no call, runs
\* no flush and leaves vertexCounter and every queued call, the open one with
\* its vertexCount, vertexAlignment and textureId, as they were.
C24_BeginSameMode ==
    [][ (ev'.op = "Begin" /\ ev'.arg = Last(drawQueue).mode)
        => /\ ev'.flushes = <<>>
           /\ UNCHANGED <<vertexCounter, drawQueue, currentBuffer, currentDepth,
                          firstIndex, hung>> ]_vars

\* Begin(Lines) on an open Lines call that holds a line
C24_Witness ==
    /\ ev.op = "Begin" /\ ev.arg = "Lines"
    /\ Last(drawQueue).mode = "Lines"
    /\ Last(drawQueue).vertexCount = 2
    /\ vertexCounter = 2

\* C25: the DrawCall that Begin opens on a mode change, no flush running
\* inside the Begin, has the textureId of the call that was open before: the
\* texture SetTexture made current, or the default texture.
C25_BeginCarriesTexture ==
    [][ ( /\ ev'.op = "Begin"
          /\ ev'.arg # Last(drawQueue).mode
          /\ ev'.flushes = <<>> )
        => Last(drawQueue').textureId = Last(drawQueue).textureId ]_vars

\* C26: SetTexture(0) flushes the batch when the buffer has no room for
\* another 4 vertices (vertexCounter + 4 > elementCount*4) and runs no flush
\* otherwise.
C26_SetTextureZero ==
    (ev.op = "SetTexture" /\ ev.arg = 0) =>
        IF ev.flushes = <<>>
        THEN vertexCounter + 4 <= Capacity
        ELSE /\ Len(ev.flushes) = 1
             /\ ev.flushes[1].vertexCounter + 4 > Capacity

\* C26 as the code has it: SetTexture(0) flushes the batch when the buffer is
\* full (vertexCounter >= elementCount*4) and runs no flush otherwise.
C26_SetTextureZeroAmended ==
    (ev.op = "SetTexture" /\ ev.arg = 0) =>
        IF ev.flushes = <<>>
        THEN vertexCounter < Capacity
        ELSE /\ Len(ev.flushes) = 1
             /\ ev.flushes[1].cause = "setTextureZero"
             /\ ev.flushes[1].vertexCounter >= Capacity
             /\ vertexCounter = 0

\* SetTexture(0) found the buffer full and flushed it
C26_Witness ==
    /\ ev.op = "SetTexture" /\ ev.arg = 0
    /\ Len(ev.flushes) = 1
    /\ ev.flushes[1].vertexCounter = Capacity
    /\ vertexCounter = 0

(* ------------------------------ padding ------------------------------- *)
\* complete primitives in buffers that hold up to MaxPadElements quads, which
\* is room for a call of 12 triangle vertices and its padding
SpecPadding == Fresh(MaxPadElements, MaxPadCalls, CallerStart) /\ [][NextSwitches]_vars

\* C27: a call of complete primitives closed by Begin or SetTexture stores as
\* vertexAlignment the least p >= 0 with (vertexCount + p) % 4 = 0, that is
\* (4 - vertexCount % 4) % 4.
C27_MinimalAlignment ==
    \A k \in 1..(Len(drawQueue) - 1) :
        (drawQueue[k].vertexCount % PrimSize(drawQueue[k].mode) = 0) =>
            drawQueue[k].vertexAlignment = (4 - (drawQueue[k].vertexCount % 4)) % 4

\* C28: an operation that runs no flush leaves every queued call but the last
\* as it was (mode, textureId, vertexCount, vertexAlignment) and removes no
\* call; it writes the call that was open, closing it or not, and if that
\* call stays open its vertexCount does not decrease.
C28_ClosedCallsImmutable ==
    [][ ev'.flushes = <<>> =>
          /\ Len(drawQueue') >= Len(drawQueue)
          /\ \A k \in 1..(Len(drawQueue) - 1) : drawQueue'[k] = drawQueue[k]
          /\ Len(drawQueue') = Len(drawQueue) =>
                 Last(drawQueue').vertexCount >= Last(drawQueue).vertexCount ]_vars

\* a vertex went into the open call behind a closed call that holds vertices
C28_Witness ==
    /\ ev.op = "Vertex"
    /\ ev.flushes = <<>>
    /\ Len(drawQueue) >= 2
    /\ drawQueue[1].vertexCount > 0
    /\ drawQueue[1].textureId # Last(drawQueue).textureId
    /\ Last(drawQueue).vertexCount > 0

(* --------------------------- texture units ---------------------------- *)
\* Context::SetUniformSampler: a texture not yet registered takes the first
\* free additional unit; unit i of the source is unit i + 1 here
SetUniformSampler(s, textureId) ==
    LET units == 1..MaxTextureUnits
        free  == {i \in units : s.activeTextureId[i] = 0}
    IN  IF \E i \in units : s.activeTextureId[i] = textureId THEN s
        ELSE IF free = {} THEN s
        ELSE [s EXCEPT !.activeTextureId[CHOOSE i \in free : \A j \in free : i <= j] =
                           textureId]

CallSetUniformSampler ==
    \E textureId \in 0..MaxTextureId :
        /\ ~hung
        /\ \E s \in {SetUniformSampler(Ctx, textureId)} :
               Commit(s, "SetUniformSampler", textureId)
        /\ UNCHANGED <<caller, run>>

NextSamplers ==
    \/ CallVertex
    \/ CallSetUniformSampler
    \/ CallDrawRenderBatchActive

SpecSamplers == Init /\ [][NextSamplers]_vars

\* in a flush each effect a happens once, and before each effect b
Once(steps, a) == Cardinality(Positions(steps, a)) = 1

Before(steps, a, b) ==
    \A i \in Positions(steps, a) : \A j \in Positions(steps, b) : i < j

\* C29: a flush issues its draw commands, then restores the matrices, then
\* resets vertexCounter to 0 and clears the additional texture units, then
\* pushes the default call if the queue is empty, and advances to the next
\* buffer last: vertexCounter is 0 when currentBuffer advances.
C29_FlushStepOrder ==
    \A f \in Flushes :
        /\ Once(f.steps, "restoreMatrices")
        /\ Once(f.steps, "resetVertexCounter")
        /\ Once(f.steps, "clearActiveTextures")
        /\ Once(f.steps, "advanceBuffer")
        /\ Before(f.steps, "draw", "restoreMatrices")
        /\ Before(f.steps, "restoreMatrices", "resetVertexCounter")
        /\ Before(f.steps, "restoreMatrices", "clearActiveTextures")
        /\ Before(f.steps, "resetVertexCounter", "pushDefault")
        /\ Before(f.steps, "clearActiveTextures", "pushDefault")
        /\ Before(f.steps, "resetVertexCounter", "advanceBuffer")
        /\ Before(f.steps, "clearActiveTextures", "advanceBuffer")
        /\ Before(f.steps, "pushDefault", "advanceBuffer")

\* C29 as the code has it: a flush issues its draw commands, then restores
\* the matrices, then pushes the default call if the queue is empty, then
\* advances to the next buffer, and resets vertexCounter to 0 and clears the
\* additional texture units last: vertexCounter still counts the vertices
\* flushed when currentBuffer advances.
C29_FlushStepOrderAmended ==
    /\ \A f \in Flushes :
        /\ Once(f.steps, "restoreMatrices")
        /\ Once(f.steps, "resetVertexCounter")
        /\ Once(f.steps, "clearActiveTextures")
        /\ Once(f.steps, "advanceBuffer")
        /\ Before(f.steps, "draw", "restoreMatrices")
        /\ Before(f.steps, "restoreMatrices", "pushDefault")
        /\ Before(f.steps, "restoreMatrices", "advanceBuffer")
        /\ Before(f.steps, "pushDefault", "advanceBuffer")
        /\ Before(f.steps, "advanceBuffer", "resetVertexCounter")
        /\ Before(f.steps, "resetVertexCounter", "clearActiveTextures")
        /\ f.after.vertexCounter = 0
    /\ ev.flushes # <<>> => activeTextureId = [i \in 1..MaxTextureUnits |-> 0]

\* an explicit flush drew vertices with a texture on an additional unit,
\* emptied the queue and left the counter at 0 and the units free
C29_Witness ==
    /\ ev.op = "DrawRenderBatchActive"
    /\ \E f \in Flushes :
           /\ Len(f.cmds) >= 1
           /\ \E i \in 1..MaxTextureUnits : f.textures[i] # 0
           /\ Positions(f.steps, "pushDefault") # {}
    /\ vertexCounter = 0
    /\ activeTextureId = [i \in 1..MaxTextureUnits |-> 0]

(* ------------------------------ matrices ------------------------------ *)
\* the matrices a caller sets: the identity or a matrix with a name
Matrices == {Identity} \cup {<<m>> : m \in 1..MaxMatrix}

\* Context::SetMatrixProjection and Context::SetMatrixModelview
CallSetMatrixProjection ==
    \E projectionMatrix \in Matrices :
        /\ ~hung
        /\ Commit([Ctx EXCEPT !.projection = projectionMatrix],
                  "SetMatrixProjection", projectionMatrix)
        /\ UNCHANGED <<caller, run>>

CallSetMatrixModelview ==
    \E view \in Matrices :
        /\ ~hung
        /\ Commit([Ctx EXCEPT !.modelview = view], "SetMatrixModelview", view)
        /\ UNCHANGED <<caller, run>>

NextMatrices ==
    \/ CallVertex
    \/ CallDrawRenderBatchActive
    \/ CallSetMatrixProjection
    \/ CallSetMatrixModelview
    \/ CallEnableStereoRender
    \/ CallDisableStereoRender

SpecMatrices == InitStereo /\ [][NextMatrices]_vars

\* C30: a flush, with stereo rendering enabled or disabled, leaves projection
\* and modelview with the values they had when it started.
C30_FlushKeepsMatrices ==
    [][ (ev'.flushes # <<>> \/ hung') =>
            (projection' = projection /\ modelview' = modelview) ]_vars

\* C31: End raises the depth cursor of the batch by one increment, no
\* operation (Begin, Vertex, End, SetTexture, a flush) lowers it, and
\* Vertex(x, y) stores the value the cursor has when it is called as z.
C31_DepthCursor ==
    [][ /\ currentDepth' >= currentDepth
        /\ ev'.op = "End" => currentDepth' = currentDepth + 1
        /\ ev'.op = "Vertex" => ev'.wrote.z = currentDepth ]_vars

(* ======================================================================= *)
(*                            the matrix stack                             *)
(* ======================================================================= *)
MatrixModes == {"ModelView", "Projection", "Texture"}

\* the matrix fields of State an operation starts from; slot is the index of
\* the stack slot the operation writes (-1: none)
Mat == [currentMatrixMode |-> currentMatrixMode, currentMatrix |-> currentMatrix,
        modelview |-> modelview, projection |-> projection, transform |-> transform,
        transformRequired |-> transformRequired, stack |-> stack,
        stackCounter |-> stackCounter, slot |-> -1]

\* *State.currentMatrix, read and written
Deref(m) ==
    CASE m.currentMatrix = "modelview" -> m.modelview
      [] m.currentMatrix = "projection" -> m.projection
      [] OTHER -> m.transform

Store(m, mat) ==
    CASE m.currentMatrix = "modelview" -> [m EXCEPT !.modelview = mat]
      [] m.currentMatrix = "projection" -> [m EXCEPT !.projection = mat]
      [] OTHER -> [m EXCEPT !.transform = mat]

(* -------------------------- Context::MatrixMode ----------------------- *)
MatrixMode(m, mode) ==
    [m EXCEPT !.currentMatrix = CASE mode = "Projection" -> "projection"
                                  [] mode = "ModelView" -> "modelview"
                                  [] OTHER -> @,
              !.currentMatrixMode = mode]

(* -------------------------- Context::PushMatrix ----------------------- *)
\* The test of the counter logs and goes on.  A write at index
\* RL_MAX_MATRIX_STACK_SIZE lands behind the array, where stackCounter lies:
\* the counter holds any value afterwards, `after'.
PushMatrix(m, after) ==
    LET m1 == IF m.currentMatrixMode = "ModelView"
              THEN [m EXCEPT !.transformRequired = TRUE, !.currentMatrix = "transform"]
              ELSE m
    IN  [m1 EXCEPT !.stack[m.stackCounter] = Deref(m1),
                   !.slot = m.stackCounter,
                   !.stackCounter = IF m.stackCounter >= RL_MAX_MATRIX_STACK_SIZE
                                    THEN after ELSE @ + 1]

(* -------------------------- Context::PopMatrix ------------------------ *)
\* mat is what the read of stack[stackCounter - 1] gives
PopMatrix(m, mat) ==
    LET m1 == IF m.stackCounter > 0
              THEN [Store(m, mat) EXCEPT !.stackCounter = @ - 1]
              ELSE m
    IN  IF m1.stackCounter = 0 /\ m1.currentMatrixMode = "ModelView"
        THEN [m1 EXCEPT !.currentMatrix = "modelview", !.transformRequired = FALSE]
        ELSE m1

(* ---------------- Context::Translate, MultMatrix ---------------------- *)
\* Translate builds its matrix and multiplies the current matrix by it from
\* the left, as Rotate and Scale do with theirs; MultMatrix multiplies from
\* the right
Translate(m, mat) == Store(m, mat \o Deref(m))

MultMatrix(m, mat) == Store(m, Deref(m) \o mat)

\* the state after an operation on the matrices that ended in m
CommitMatrix(m, op, arg) ==
    /\ currentMatrixMode' = m.currentMatrixMode
    /\ currentMatrix' = m.currentMatrix
    /\ modelview' = m.modelview
    /\ projection' = m.projection
    /\ transform' = m.transform
    /\ transformRequired' = m.transformRequired
    /\ stack' = m.stack
    /\ stackCounter' = m.stackCounter
    /\ ev' = [op |-> op, arg |-> arg, flushes |-> <<>>, wrote |-> NoWrite,
              thrown |-> FALSE, slot |-> m.slot]
    /\ UNCHANGED <<elementCount, bufferCount, drawQueueLimit, RL_DEFAULT_BATCH_DRAWCALLS,
                   vboId, activeTextureId, vertexCounter, drawQueue, currentBuffer,
                   currentDepth, stereoRender, currentShaderId, currentShaderLocs,
                   currentBlendMode, glBlendFactors, glBlendFactorsSeparate,
                   glCustomBlendModeModified, glBlend, currentBatch, parked, hung,
                   firstIndex, vertexBuffers, gl, heap, caller, run>>

\* a MatrixMode call comes between every open PushMatrix and its PopMatrix
CallMatrixMode ==
    \E mode \in MatrixModes :
        /\ CommitMatrix(MatrixMode(Mat, mode), "MatrixMode", mode)
        /\ pushed' = [i \in 1..Len(pushed) |-> [pushed[i] EXCEPT !.paired = FALSE]]

\* the model follows the stack up to one slot behind the array
CallPushMatrix ==
    /\ stackCounter <= RL_MAX_MATRIX_STACK_SIZE
    /\ Len(pushed) <= RL_MAX_MATRIX_STACK_SIZE
    /\ \E after \in 0..(RL_MAX_MATRIX_STACK_SIZE + 1) :
           /\ stackCounter < RL_MAX_MATRIX_STACK_SIZE => after = stackCounter + 1
           /\ CommitMatrix(PushMatrix(Mat, after), "PushMatrix", 0)
    /\ pushed' = Append(pushed, [modelview |-> modelview,
                                 paired |-> currentMatrixMode = "ModelView"])

\* a read behind the array gives what was written there or anything else
Garbage == <<0>>

CallPopMatrix ==
    /\ \E mat \in {stack[IF stackCounter > 0 THEN stackCounter - 1 ELSE 0]}
                  \cup (IF stackCounter > RL_MAX_MATRIX_STACK_SIZE THEN {Garbage} ELSE {}) :
           CommitMatrix(PopMatrix(Mat, mat), "PopMatrix", 0)
    /\ pushed' = IF pushed = <<>> THEN pushed ELSE SubSeq(pushed, 1, Len(pushed) - 1)

\* the matrices a caller multiplies by, each with a name
Factors == {<<m>> : m \in 1..MaxMatrix}

CallTranslate ==
    \E mat \in Factors :
        /\ Len(Deref(Mat)) < MaxProduct
        /\ CommitMatrix(Translate(Mat, mat), "Translate", mat[1])
        /\ UNCHANGED pushed

CallMultMatrix ==
    \E mat \in Factors :
        /\ Len(Deref(Mat)) < MaxProduct
        /\ CommitMatrix(MultMatrix(Mat, mat), "MultMatrix", mat[1])
        /\ UNCHANGED pushed

\* the constructor gives stackCounter, transformRequired and
\* currentMatrixMode no value: they hold any (a mode that is no MatrixMode is
\* treated by every operation as Texture is)
InitMatrixStack ==
    /\ Constructed(MaxBatchElements, MaxBlendCalls, CallerStart)
    /\ stackCounter \in 0..RL_MAX_MATRIX_STACK_SIZE
    /\ transformRequired \in BOOLEAN
    /\ currentMatrixMode \in MatrixModes
    /\ Mono
    /\ BlendUnread
    /\ NoActiveTextures
    /\ parked = <<>>

NextMatrixStack ==
    \/ CallMatrixMode
    \/ CallPushMatrix
    \/ CallPopMatrix
    \/ CallTranslate
    \/ CallMultMatrix

SpecMatrixStack == InitMatrixStack /\ [][NextMatrixStack]_vars

\* the PopMatrix about to run matches a PushMatrix made in ModelView mode,
\* with no MatrixMode call since
InModelViewPair == pushed # <<>> /\ Last(pushed).paired

\* C32: in ModelView mode, with no MatrixMode call since the PushMatrix,
\* Translate (standing for Rotate and Scale) and MultMatrix change the
\* transform matrix only;
\* the matching PopMatrix leaves modelview as it was before the PushMatrix,
\* and the outermost PopMatrix leaves transformRequired false and modelview
\* the current matrix.
C32_TransformsKeepModelview ==
    [][ InModelViewPair =>
          /\ ev'.op \in {"Translate", "MultMatrix"} =>
                 (modelview' = modelview /\ projection' = projection)
          /\ ev'.op = "PopMatrix" =>
                 /\ modelview' = Last(pushed).modelview
                 /\ Len(pushed) = 1 =>
                        (~transformRequired' /\ currentMatrix' = "modelview") ]_vars

\* C37: between operations, transformRequired holds only while the matrix
\* stack holds a matrix: transformRequired => stackCounter > 0.
C37_TransformOnlyWithStack == transformRequired => stackCounter > 0

\* C38: the matrix stack never overflows: after every operation
\* 0 <= stackCounter <= RL_MAX_MATRIX_STACK_SIZE, a PushMatrix writes no
\* slot at or beyond RL_MAX_MATRIX_STACK_SIZE, and a PopMatrix on an empty
\* stack leaves the stack and the current matrix unchanged.
C38_StackNeverOverflows ==
    [][ /\ stackCounter' \in 0..RL_MAX_MATRIX_STACK_SIZE
        /\ ev'.op = "PushMatrix" => ev'.slot < RL_MAX_MATRIX_STACK_SIZE
        /\ (ev'.op = "PopMatrix" /\ stackCounter = 0) =>
               /\ stack' = stack
               /\ stackCounter' = 0
               /\ currentMatrix' = currentMatrix
               /\ Deref(Mat)' = Deref(Mat) ]_vars

(* --------------------- handing over between batches ------------------- *)
MaxSwitchElements == 1
MaxSwitchCalls == 2

\* a context and one batch of the caller's, whose own draw-call limit is
\* stored and never read by an operation
InitSwitchBatch ==
    /\ Constructed(MaxSwitchElements, MaxSwitchCalls, CallerStart)
    /\ MatrixUnread
    /\ Mono
    /\ BlendUnread
    /\ NoActiveTextures
    /\ \E elements \in 1..MaxSwitchElements, limit \in {MaxSwitchCalls},
          buffer \in 0..(BufferCount - 1) :
           parked = [b \in UserBatches |-> NewBatch(elements, limit, buffer)]

SpecSwitchBatch == InitSwitchBatch /\ [][NextBatches]_vars

\* C34: SetRenderBatchActive(batch) with a batch of the caller flushes the
\* batch that was current before the batch given becomes current: the one
\* flush of the call uploads all the vertices accumulated so far from the
\* buffer of the previous batch and renders its queued calls, the vertex
\* counter is 0 when the batch given is current, and that batch is entered
\* as it was left.
C34_SwitchCarriesNoVertices ==
    [][ (ev'.op = "SetRenderBatchActive" /\ ev'.arg # NullBatch /\ ~hung') =>
           /\ ~ev'.thrown
           /\ currentBatch' = ev'.arg
           /\ vertexCounter' = 0
           /\ Len(ev'.flushes) = 1
           /\ ev'.flushes[1].buffer = currentBuffer
           /\ ev'.flushes[1].vertexCounter = vertexCounter
           /\ ev'.flushes[1].queue = drawQueue
           /\ vertexCounter > 0 =>
                  /\ ev'.flushes[1].steps[1] = "upload"
                  /\ ev'.flushes[1].cmds = RenderQueue(drawQueue, 0)
           /\ ev'.arg # currentBatch =>
                  /\ drawQueue' = parked[ev'.arg].drawQueue
                  /\ currentBuffer' = parked[ev'.arg].currentBuffer
                  /\ currentBatch \in DOMAIN parked' ]_vars

\* the batch of the caller was made current while the default batch held a
\* vertex: the vertex was flushed from the default batch
C34_Witness ==
    /\ ev.op = "SetRenderBatchActive" /\ ev.arg \in UserBatches
    /\ currentBatch = ev.arg
    /\ defaultBatch \in DOMAIN parked
    /\ Len(ev.flushes) = 1
    /\ ev.flushes[1].vertexCounter > 0
    /\ vertexCounter = 0

(* ------------- Context::DrawRenderBatch on a batch not current -------- *)
\* the calls of DrawRenderBatch are explored while the current batch queues
\* no more than this many vertices
MaxPending == 2

\* the vertices the queued calls of a batch count
RECURSIVE QueuedVertices(_)
QueuedVertices(queue) ==
    IF queue = <<>> THEN 0 ELSE Head(queue).vertexCount + QueuedVertices(Tail(queue))

\* DrawRenderBatch(batch) for a batch of the caller's that is not current:
\* batch->Draw works on the queue, buffer and depth of that batch and reads
\* State.vertexCounter of the context; DrawRenderBatch then resets
\* State.vertexCounter and State.activeTextureId
CallDrawRenderBatch ==
    /\ ~hung
    /\ QueuedVertices(drawQueue) <= MaxPending
    /\ \E batch \in DOMAIN parked :
       \E s \in {DrawRenderBatch([Ctx EXCEPT !.drawQueue = parked[batch].drawQueue,
                                             !.currentBuffer = parked[batch].currentBuffer,
                                             !.currentDepth = parked[batch].currentDepth,
                                             !.firstIndex = parked[batch].firstIndex],
                                 "explicit")} :
          /\ parked' = [parked EXCEPT ![batch] =
                           [@ EXCEPT !.drawQueue = s.drawQueue,
                                     !.currentBuffer = s.currentBuffer,
                                     !.currentDepth = s.currentDepth,
                                     !.firstIndex = s.firstIndex]]
          /\ vertexCounter' = s.vertexCounter
          /\ activeTextureId' = s.activeTextureId
          /\ projection' = s.projection
          /\ modelview' = s.modelview
          /\ hung' = s.hung
          /\ ev' = [op |-> "DrawRenderBatch", arg |-> batch, flushes |-> s.flushes,
                    wrote |-> s.wrote, thrown |-> FALSE]
    /\ UNCHANGED <<elementCount, bufferCount, drawQueueLimit, RL_DEFAULT_BATCH_DRAWCALLS,
                   vboId, drawQueue, currentBuffer, currentDepth, firstIndex, stereoRender,
                   currentShaderId, currentShaderLocs, currentBlendMode, glBlendFactors,
                   glBlendFactorsSeparate, glCustomBlendModeModified, glBlend,
                   currentBatch, transform, currentMatrixMode, currentMatrix,
                   transformRequired, stack, stackCounter, pushed, vertexBuffers, gl,
                   heap, caller, run>>

\* primitives emitted into the current batch while another batch is drawn
NextDrawBatch ==
    \/ CallBegin
    \/ CallVertex
    \/ CallDrawRenderBatch
    \/ CallDrawRenderBatchActive

SpecDrawBatch == InitSwitchBatch /\ [][NextDrawBatch]_vars

\* C35: DrawRenderBatch(batch) for a batch that is not current, while the
\* current batch holds vertices not yet flushed, leaves the vertex counter
\* and the queued calls of the current batch unchanged.
C35_DrawOtherBatchOnly ==
    [][ (ev'.op = "DrawRenderBatch" /\ ev'.arg # currentBatch /\ vertexCounter > 0) =>
           /\ vertexCounter' = vertexCounter
           /\ drawQueue' = drawQueue ]_vars

(* ------------------------- flushes forced by a call ------------------- *)
MaxForcedElements == 1
MaxForcedCalls == 1

\* SetShader with the locations of the shader named
CallSetShaderOf ==
    \E id \in 0..MaxShaderId : DoSetShader(id, id) /\ UNCHANGED <<caller, run>>

\* SetBlendMode with the modes that take no factors
CallSetBlendModeFixed ==
    /\ ~hung
    /\ \E mode \in {"Alpha", "Additive"} : \E s \in {SetBlendMode(Ctx, mode)} :
           Commit(s, "SetBlendMode", mode)
    /\ UNCHANGED <<caller, run>>

\* primitives of all modes and textures, and the calls that force a flush
NextForced ==
    \/ CallBegin
    \/ CallVertex
    \/ CallSetTexture
    \/ CallSetShaderOf
    \/ CallSetBlendModeFixed
    \/ CallDrawRenderBatchActive

SpecForced == Fresh(MaxForcedElements, MaxForcedCalls, CallerStart) /\ [][NextForced]_vars

\* the flushes that are not started by a full buffer
Forced == {"shader", "blend", "explicit", "drawCallLimit"}

\* the flush found vertices of a Lines or Triangles call accumulated
HoldsPrimitives(f) ==
    /\ f.vertexCounter > 0
    /\ \E i \in 1..Len(f.queue) :
          f.queue[i].mode \in {"Lines", "Triangles"} /\ f.queue[i].vertexCount > 0

\* C36: a flush started by SetShader, SetBlendMode, DrawRenderBatchActive or
\* the draw-call limit while vertices of a Lines or Triangles call are
\* accumulated leaves one open call with mode Quads, the default texture and
\* no vertices; SetShader, SetBlendMode and DrawRenderBatchActive return with
\* that call open (Begin and SetTexture, whose draw-call limit started the
\* flush, go on to store the mode or texture of their argument in it), and a
\* Vertex without a flush counts into the open call whatever its mode.
C36_ForcedFlushDropsCall ==
    [][ /\ \A i \in 1..Len(ev'.flushes) :
              (ev'.flushes[i].cause \in Forced /\ HoldsPrimitives(ev'.flushes[i])) =>
                 /\ ev'.flushes[i].after.drawQueue = <<DrawCall(DefaultTextureId)>>
                 /\ DrawCall(DefaultTextureId).mode = "Quads"
                 /\ ev'.op \in {"SetShader", "SetBlendMode", "DrawRenderBatchActive"} =>
                        drawQueue' = <<DrawCall(DefaultTextureId)>>
                 /\ ev'.op = "Begin" =>
                        drawQueue' = <<[DrawCall(DefaultTextureId) EXCEPT !.mode = ev'.arg]>>
                 /\ ev'.op = "SetTexture" =>
                        drawQueue' = <<DrawCall(ev'.arg)>>
        /\ (ev'.op = "Vertex" /\ ev'.flushes = <<>>) =>
              drawQueue' = SetLast(drawQueue, [Last(drawQueue) EXCEPT !.vertexCount = @ + 1])
      ]_vars

\* SetShader flushed a vertex of a Lines call and left a Quads call open
C36_Witness ==
    /\ ev.op = "SetShader"
    /\ Len(ev.flushes) = 1
    /\ ev.flushes[1].cause = "shader"
    /\ HoldsPrimitives(ev.flushes[1])
    /\ Last(ev.flushes[1].queue).mode = "Lines"
    /\ drawQueue = <<DrawCall(DefaultTextureId)>>

(* ------------------------------ VertexBuffer -------------------------- *)
\* places the caller keeps VertexBuffer objects in, and the number of
\* VertexBuffer(shaderLocs, bufferElements) constructions explored
MaxVertexBuffers == 3
MaxAllocations == 2

\* VertexBuffer() = default, by the member initialisers; a pointer is the
\* number of the array it points to and 0 for nullptr
VertexBufferDefault ==
    [vertices |-> 0, texcoords |-> 0, colors |-> 0, indices |-> 0,
     vaoId |-> 0, vboId |-> <<0, 0, 0, 0>>]

\* VertexBuffer(shaderLocs, bufferElements) on heap h and GL g: four arrays
\* by new[], a vertex array name where the GL has them, four buffer names;
\* `generated' is whether glGen* stored names
VertexBufferNew(h, g, generated) ==
    [vertices |-> Len(h) + 1, texcoords |-> Len(h) + 2, colors |-> Len(h) + 3,
     indices |-> Len(h) + 4,
     vaoId |-> IF g.vao /\ generated THEN Len(g.vertexArrays) + 1 ELSE 0,
     vboId |-> IF generated THEN [i \in 1..4 |-> Len(g.buffers) + i]
               ELSE <<0, 0, 0, 0>>]

\* delete[] p
DeleteArray(h, p) == IF p = 0 THEN h ELSE [h EXCEPT ![p] = @ + 1]

\* glDeleteBuffers(1, &name) and glDeleteVertexArrays(1, &name); the GL
\* ignores the name 0
DeleteBuffers(g, name) ==
    IF name = 0 THEN g ELSE [g EXCEPT !.buffers[name] = @ + 1]

DeleteVertexArrays(g, name) ==
    IF name = 0 THEN g ELSE [g EXCEPT !.vertexArrays[name] = @ + 1]

\* ~VertexBuffer(): what it makes of the GL and of the heap
DestructorGL(g, vb) ==
    LET b1 == DeleteBuffers(g, vb.vboId[1])
        b2 == DeleteBuffers(b1, vb.vboId[2])
        b3 == DeleteBuffers(b2, vb.vboId[3])
        b4 == DeleteBuffers(b3, vb.vboId[4])
    IN  IF g.vao THEN DeleteVertexArrays(b4, vb.vaoId) ELSE b4

DestructorHeap(h, vb) ==
    DeleteArray(DeleteArray(DeleteArray(DeleteArray(h, vb.indices), vb.colors),
                            vb.texcoords), vb.vertices)

\* what the move constructor and the move assignment leave in `other'
MovedFrom(other) == VertexBufferDefault

\* the object `operator=(VertexBuffer&& other)' leaves in *this
OperatorAssign(this, other) == other

\* the state after an operation on the VertexBuffer objects
CommitBuffers(op, arg) ==
    /\ ev' = [op |-> op, arg |-> arg, flushes |-> <<>>, wrote |-> NoWrite,
              thrown |-> FALSE]
    /\ UNCHANGED <<elementCount, bufferCount, drawQueueLimit, RL_DEFAULT_BATCH_DRAWCALLS,
                   vboId, activeTextureId, projection, modelview, transform,
                   currentMatrixMode, currentMatrix, transformRequired, stack, stackCounter,
                   vertexCounter, drawQueue, currentBuffer, currentDepth, stereoRender,
                   currentShaderId, currentShaderLocs, currentBlendMode, glBlendFactors,
                   glBlendFactorsSeparate, glCustomBlendModeModified, glBlend,
                   currentBatch, parked, hung, firstIndex, pushed, caller, run>>

\* f with place p holding x
Put(f, p, x) == [q \in DOMAIN f \cup {p} |-> IF q = p THEN x ELSE f[q]]

\* VertexBuffer()
CallVertexBufferDefault ==
    \E place \in (1..MaxVertexBuffers) \ DOMAIN vertexBuffers :
        /\ vertexBuffers' = Put(vertexBuffers, place, VertexBufferDefault)
        /\ UNCHANGED <<gl, heap>>
        /\ CommitBuffers("VertexBuffer", <<place, 0>>)

\* VertexBuffer(shaderLocs, bufferElements)
CallVertexBufferNew ==
    /\ Len(heap) < 4 * MaxAllocations
    /\ \E place \in (1..MaxVertexBuffers) \ DOMAIN vertexBuffers, generated \in BOOLEAN :
        LET vb == VertexBufferNew(heap, gl, generated)
        IN  /\ vertexBuffers' = Put(vertexBuffers, place, vb)
            /\ heap' = heap \o <<0, 0, 0, 0>>
            /\ gl' = [gl EXCEPT
                         !.buffers = IF generated THEN @ \o <<0, 0, 0, 0>> ELSE @,
                         !.vertexArrays = IF vb.vaoId # 0 THEN Append(@, 0) ELSE @]
            /\ CommitBuffers("VertexBufferNew", <<place, 0>>)

\* VertexBuffer(VertexBuffer&& other)
CallVertexBufferMove ==
    \E place \in (1..MaxVertexBuffers) \ DOMAIN vertexBuffers, other \in DOMAIN vertexBuffers :
        /\ vertexBuffers' = Put(Put(vertexBuffers, place, vertexBuffers[other]),
                                other, MovedFrom(vertexBuffers[other]))
        /\ UNCHANGED <<gl, heap>>
        /\ CommitBuffers("MoveConstruct", <<place, other>>)

\* operator=(VertexBuffer&& other), other being *this or another object
CallOperatorAssign ==
    \E place \in DOMAIN vertexBuffers, other \in DOMAIN vertexBuffers :
        /\ vertexBuffers' =
              IF place = other THEN vertexBuffers
              ELSE Put(Put(vertexBuffers, place,
                           OperatorAssign(vertexBuffers[place], vertexBuffers[other])),
                       other, MovedFrom(vertexBuffers[other]))
        /\ UNCHANGED <<gl, heap>>
        /\ CommitBuffers("MoveAssign", <<place, other>>)

\* ~VertexBuffer(): the lifetime of the object ends
CallDestructor ==
    \E place \in DOMAIN vertexBuffers :
        /\ gl' = DestructorGL(gl, vertexBuffers[place])
        /\ heap' = DestructorHeap(heap, vertexBuffers[place])
        /\ vertexBuffers' = [q \in DOMAIN vertexBuffers \ {place} |-> vertexBuffers[q]]
        /\ CommitBuffers("Destructor", <<place, 0>>)

\* a context, and a GL with or without vertex array objects
InitVertexBuffers ==
    /\ ConstructedContext(MaxBatchElements, MaxBlendCalls, CallerStart)
    /\ MatrixUnread /\ Mono /\ BlendUnread /\ NoActiveTextures
    /\ parked = <<>>
    /\ vertexBuffers = <<>>
    /\ heap = <<>>
    /\ \E vao \in BOOLEAN : gl = NoNames(vao)

NextVertexBuffers ==
    \/ CallVertexBufferDefault
    \/ CallVertexBufferNew
    \/ CallVertexBufferMove
    \/ CallOperatorAssign
    \/ CallDestructor

SpecVertexBuffers == InitVertexBuffers /\ [][NextVertexBuffers]_vars

\* the arrays and the GL names an object holds
Arrays(vb) == {vb.vertices, vb.texcoords, vb.colors, vb.indices} \ {0}
Buffers(vb) == {vb.vboId[i] : i \in 1..4} \ {0}
VertexArrays(vb) == {vb.vaoId} \ {0}

\* held: per living object the resources it holds.  Every resource made is
\* either held by exactly one living object and not released, or held by
\* none and released once
OnceEach(released, held) ==
    \A x \in DOMAIN released :
        LET holders == {p \in DOMAIN held : x \in held[p]}
        IN  \/ released[x] = 0 /\ Cardinality(holders) = 1
            \/ released[x] = 1 /\ holders = {}

\* C33: across construction, move construction, move assignment and
\* destruction of VertexBuffer objects, the object moved from holds no GL
\* name and no array afterwards, and every array and every buffer and vertex
\* array name made is held by exactly one living object until it is
\* released, and released exactly once.
C33_ReleasedExactlyOnce ==
    [][ /\ (ev'.op \in {"MoveConstruct", "MoveAssign"} /\ ev'.arg[1] # ev'.arg[2]) =>
               /\ Arrays(vertexBuffers'[ev'.arg[2]]) = {}
               /\ Buffers(vertexBuffers'[ev'.arg[2]]) = {}
               /\ VertexArrays(vertexBuffers'[ev'.arg[2]]) = {}
        /\ OnceEach(heap', [p \in DOMAIN vertexBuffers' |-> Arrays(vertexBuffers'[p])])
        /\ OnceEach(gl'.buffers, [p \in DOMAIN vertexBuffers' |-> Buffers(vertexBuffers'[p])])
        /\ gl'.vao => OnceEach(gl'.vertexArrays,
                                [p \in DOMAIN vertexBuffers' |-> VertexArrays(vertexBuffers'[p])])
      ]_vars

====
